---- MODULE Spec2Model ----
(***************************************************************************)
(* Self-Health-Check: the check runner (health-check.js), the summary      *)
(* reducer, the report formatter, the logger, the notifier and the trend   *)
(* analyzer's log parser.                                                  *)
(*                                                                         *)
(* Text is a sequence of tokens.  A token is one UTF-16 code unit of a     *)
(* glyph ("u2705"), one ASCII character (" ", "\n", ":", "[", a digit),    *)
(* an alphabetic word ("Passed") or a run of '=' ("={60}").                *)
(***************************************************************************)
EXTENDS Integers, Sequences, FiniteSets, TLC

VARIABLES
  pc,           \* position of the running script
  argv,         \* process.argv flags given on the command line
  env,          \* process.env as read at module load
  now,          \* the wall clock, Date.now() in milliseconds
  idx,          \* loop position in checksToRun (1-based)
  startTime,    \* runCheck's startTime of the check in progress
  invoked,      \* names of the checks whose fn has been called, in call order
  settled,      \* how each awaited check function settled, in call order
  results,      \* main's results array
  console,      \* names printed by the real-time output, in print order
  summary,      \* main's summary (NoValue before generateSummary ran)
  reportText,   \* main's reportText
  logFile,      \* content of CONFIG.healthLog
  sendCalls,    \* number of notifier.send invocations
  sendResults,  \* notifier.send's results array
  attempts,     \* how each channel attempt of notifier.send ended, in order
  exitCode,     \* process exit code (NoValue while the process runs)
  appended,     \* the (content, time) of each logger.append call, in call order
  entries,      \* what parseHealthCheckLog returned for logFile
  fileState,    \* the log path: "absent", "present" or "unreadable"
  recent,       \* the calls of logger.readRecent and what they returned, in call order
  fixture,      \* what a check module finds on disk and gets from its commands
  verdict       \* what the check module's run returned for the fixture

vars == <<pc, argv, env, now, idx, startTime, invoked, settled, results,
          console, summary, reportText, logFile, sendCalls, sendResults,
          attempts, exitCode, appended, entries, fileState, recent, fixture,
          verdict>>

\* the state of the logger and check-module harnesses
harnessVars == <<fileState, recent, fixture, verdict>>

----------------------------------------------------------------------------
NoValue == "undefined"

----------------------------------------------------------------------------
(* health-check.js *)

\* the values HEALTH_CHECK_ALERT_ONLY takes in the runs that are modelled
AlertOnlyValues == {NoValue, "false", "true"}

\* the values HEALTH_CHECK_NOTION_DB_ID takes ("" is the README's empty line)
NotionDbIdValues == {NoValue, "", "db-1"}

Truthy(v) == v /= NoValue /\ v /= ""

\* CONFIG with alert-only mode as an opt-in (=== 'true')
CONFIGAlertOnlyOptIn ==
  [ notionDbId |-> env.HEALTH_CHECK_NOTION_DB_ID,
    alertOnly  |-> env.HEALTH_CHECK_ALERT_ONLY = "true" ]

CONFIG ==
  [ notionDbId |-> env.HEALTH_CHECK_NOTION_DB_ID,
    alertOnly  |-> env.HEALTH_CHECK_ALERT_ONLY /= "false" ]

parseArgs ==
  [ full   |-> "--full" \in argv,
    notify |-> "--notify" \in argv,
    dryRun |-> "--dry-run" \in argv ]

basicChecks ==
  << << "Config", " ", "Check" >>, << "Syntax", " ", "Check" >>,
     << "Dependencies", " ", "Check" >> >>

fullChecks ==
  basicChecks \o << << "Logs", " ", "Analysis" >>, << "Git", " ", "Status" >> >>

\* checksToRun that ignores --full
checksToRunAlwaysFull == fullChecks

checksToRun == IF parseArgs.full THEN fullChecks ELSE basicChecks

\* the statuses the run function of each check module returns
ReturnedStatuses(checkName) ==
  CASE checkName = << "Config", " ", "Check" >>       -> {"pass", "warning", "fail", "error"}
    [] checkName = << "Syntax", " ", "Check" >>       -> {"pass", "warning", "fail"}
    [] checkName = << "Dependencies", " ", "Check" >> -> {"pass", "warning", "fail"}
    [] checkName = << "Logs", " ", "Analysis" >>      -> {"pass", "warning", "fail", "error"}
    [] checkName = << "Git", " ", "Status" >>         -> {"pass", "warning", "fail"}

\* what a check function does when runCheck awaits it: it resolves with a
\* result object, or it throws / rejects with an Error
Returns(statuses) ==
  { [kind |-> "returns", value |-> [status |-> s, message |-> << "checked" >>]] :
      s \in statuses }

Throws == { [kind |-> "throws", message |-> << "boom" >>] }

CheckBehaviours(checkName) == Returns(ReturnedStatuses(checkName)) \cup Throws

\* the milliseconds a check takes between runCheck's two readings of Date.now():
\* one sample per check
Durations(checkName) ==
  CASE checkName = << "Config", " ", "Check" >>       -> {12}
    [] checkName = << "Syntax", " ", "Check" >>       -> {340}
    [] checkName = << "Dependencies", " ", "Check" >> -> {7}
    [] checkName = << "Logs", " ", "Analysis" >>      -> {0}
    [] checkName = << "Git", " ", "Status" >>         -> {105}

\* runCheck, from the moment checkFn settled: { name, status, duration, ...result }
\* on success (the spread comes last, so result's own keys win), the error
\* record in the catch branch
runCheck(checkName, behaviour, start, end) ==
  IF behaviour.kind = "returns"
    THEN LET result == behaviour.value
             status == IF "status" \in DOMAIN result /\ Truthy(result.status)
                         THEN result.status ELSE "unknown"
         IN  result @@ [name |-> checkName, status |-> status, duration |-> end - start]
    ELSE [name |-> checkName, status |-> "error", duration |-> end - start,
          error |-> behaviour.message]

RECURSIVE CountStatus(_, _)
\* results.filter(r => r.status === s).length
CountStatus(rs, s) ==
  IF rs = << >> THEN 0
  ELSE (IF Head(rs).status = s THEN 1 ELSE 0) + CountStatus(Tail(rs), s)

\* generateSummary that takes for passed whatever is in no other count
generateSummaryPassedRest(rs, t) ==
  [ total |-> Len(rs),
    passed |-> Len(rs) - CountStatus(rs, "warning") - CountStatus(rs, "fail")
                 - CountStatus(rs, "error"),
    warnings |-> CountStatus(rs, "warning"), failed |-> CountStatus(rs, "fail"),
    errors |-> CountStatus(rs, "error"),
    overallStatus |-> IF CountStatus(rs, "error") > 0 \/ CountStatus(rs, "fail") > 0
                        THEN "fail"
                      ELSE IF CountStatus(rs, "warning") > 0 THEN "warning" ELSE "pass",
    timestamp |-> t ]

\* generateSummary with an overall status of its own for errors
generateSummaryErrorStatus(rs, t) ==
  [ total |-> Len(rs), passed |-> CountStatus(rs, "pass"),
    warnings |-> CountStatus(rs, "warning"), failed |-> CountStatus(rs, "fail"),
    errors |-> CountStatus(rs, "error"),
    overallStatus |-> IF CountStatus(rs, "error") > 0 THEN "error"
                      ELSE IF CountStatus(rs, "fail") > 0 THEN "fail"
                      ELSE IF CountStatus(rs, "warning") > 0 THEN "warning" ELSE "pass",
    timestamp |-> t ]

\* generateSummary whose overall status looks at failed only, not at errors
generateSummaryErrorsIgnored(rs, t) ==
  LET total    == Len(rs)
      passed   == CountStatus(rs, "pass")
      warnings == CountStatus(rs, "warning")
      failed   == CountStatus(rs, "fail")
      errors   == CountStatus(rs, "error")
  IN  [ total |-> total, passed |-> passed, warnings |-> warnings,
        failed |-> failed, errors |-> errors,
        overallStatus |-> IF failed > 0 THEN "fail"
                          ELSE IF warnings > 0 THEN "warning" ELSE "pass",
        timestamp |-> t ]

generateSummary(rs, t) ==
  LET total    == Len(rs)
      passed   == CountStatus(rs, "pass")
      warnings == CountStatus(rs, "warning")
      failed   == CountStatus(rs, "fail")
      errors   == CountStatus(rs, "error")
  IN  [ total |-> total, passed |-> passed, warnings |-> warnings,
        failed |-> failed, errors |-> errors,
        overallStatus |-> IF errors > 0 \/ failed > 0 THEN "fail"
                          ELSE IF warnings > 0 THEN "warning" ELSE "pass",
        timestamp |-> t ]

----------------------------------------------------------------------------
(* text *)

\* the glyphs of the report, as their UTF-16 code units
CheckMark    == << "u2705" >>             \* U+2705
WarningSign  == << "u26A0", "uFE0F" >>    \* U+26A0 U+FE0F
CrossMark    == << "u274C" >>             \* U+274C
Collision    == << "uD83D", "uDCA5" >>    \* U+1F4A5
QuestionMark == << "u2753" >>             \* U+2753
Hospital     == << "uD83C", "uDFE5" >>    \* U+1F3E5
Calendar     == << "uD83D", "uDCC5" >>    \* U+1F4C5
BarChart     == << "uD83D", "uDCCA" >>    \* U+1F4CA
LightBulb    == << "uD83D", "uDCA1" >>    \* U+1F4A1
Tick         == << "u2713" >>             \* U+2713
Ballot       == << "u2717" >>             \* U+2717

DigitChars == << "0", "1", "2", "3", "4", "5", "6", "7", "8", "9" >>

IsDigit(c) == \E d \in 1 .. 10 : DigitChars[d] = c

DigitValue(c) == (CHOOSE d \in 1 .. 10 : DigitChars[d] = c) - 1

\* \s
IsSpace(c) == c \in {" ", "\n"}

RECURSIVE String(_)
\* `${n}` of a non-negative integer: its decimal digits
String(n) ==
  IF n < 10 THEN << DigitChars[n + 1] >>
  ELSE String(n \div 10) \o << DigitChars[(n % 10) + 1] >>

\* n.toString().padStart(w, '0') for w = 2 and w = 3
Pad2(n) == << DigitChars[((n \div 10) % 10) + 1], DigitChars[(n % 10) + 1] >>

Pad3(n) == << DigitChars[((n \div 100) % 10) + 1] >> \o Pad2(n % 100)

\* new Date(t).toISOString(), t in milliseconds after 2026-01-01T00:00:00.000Z
\* (within the first minute)
toISOString(t) ==
  << "2", "0", "2", "6", "-", "0", "1", "-", "0", "1", "T",
     "0", "0", ":", "0", "0", ":" >> \o Pad2((t \div 1000) % 60)
  \o << "." >> \o Pad3(t % 1000) \o << "Z" >>

\* new Date(t).toLocaleString('zh-CN', { timeZone: 'Asia/Shanghai' })
toLocaleString(t) ==
  << "2", "0", "2", "6", "/", "1", "/", "1", " ",
     "0", "8", ":", "0", "0", ":" >> \o Pad2((t \div 1000) % 60)

\* status.toUpperCase()
toUpperCase(status) ==
  CASE status = "pass"    -> << "PASS" >>
    [] status = "warning" -> << "WARNING" >>
    [] status = "fail"    -> << "FAIL" >>
    [] status = "error"   -> << "ERROR" >>
    [] OTHER              -> << "UNKNOWN" >>

RECURSIVE join(_, _)
\* lines.join(sep)
join(lines, sep) ==
  IF lines = << >> THEN << >>
  ELSE IF Len(lines) = 1 THEN lines[1]
  ELSE lines[1] \o sep \o join(Tail(lines), sep)

RECURSIVE Flatten(_)
Flatten(seqs) == IF seqs = << >> THEN << >> ELSE Head(seqs) \o Flatten(Tail(seqs))

\* a key that is present with a truthy value
Has(r, key) == key \in DOMAIN r /\ r[key] /= << >>

----------------------------------------------------------------------------
(* health-check.js: formatResults *)

\* the statusEmoji table of formatResults (undefined for any other key)
statusEmoji(status) ==
  CASE status = "pass"    -> CheckMark
    [] status = "warning" -> WarningSign
    [] status = "fail"    -> CrossMark
    [] status = "error"   -> Collision
    [] status = "unknown" -> QuestionMark
    [] OTHER              -> << NoValue >>

\* the lines pushed for one result in the Details section
resultLines(result) ==
  << statusEmoji(result.status) \o << " " >> \o result.name
       \o << " ", "[" >> \o String(result.duration) \o << "ms", "]" >> >>
  \o (IF Has(result, "message")
        THEN << << " ", " ", " " >> \o result.message >> ELSE << >>)
  \o (IF Has(result, "details")
        THEN [ i \in 1 .. Len(result.details) |->
                 << " ", " ", " " >>
                 \o (IF result.details[i].status = "pass" THEN Tick ELSE Ballot)
                 \o << " " >> \o result.details[i].message ]
        ELSE << >>)
  \o (IF Has(result, "error")
        THEN << << " ", " ", " ", "Error", ":", " " >> \o result.error >> ELSE << >>)
  \o (IF Has(result, "fix")
        THEN << << " ", " ", " " >> \o LightBulb \o << " ", "Suggested", " ", "fix", ":" >> >>
             \o [ i \in 1 .. Len(result.fix) |->
                    << " ", " ", " ", " ", " ", " ", "-", " " >> \o result.fix[i] ]
        ELSE << >>)
  \o << << >> >>

formatResults(rs, sm, t) ==
  LET header ==
        << Hospital \o << " ", "Clawdbot", " ", "Health", " ", "Check", " ", "Report" >>,
           Calendar \o << " " >> \o toLocaleString(t),
           BarChart \o << " ", "Overall", " ", "Status", ":", " " >>
             \o statusEmoji(sm.overallStatus) \o << " " >> \o toUpperCase(sm.overallStatus),
           << >>,
           << "#", "#", " ", "Summary" >>,
           << "Total", " ", "Checks", ":", " " >> \o String(sm.total),
           CheckMark \o << " ", "Passed", ":", " " >> \o String(sm.passed),
           WarningSign \o << " ", " ", "Warnings", ":", " " >> \o String(sm.warnings),
           CrossMark \o << " ", "Failed", ":", " " >> \o String(sm.failed),
           Collision \o << " ", "Errors", ":", " " >> \o String(sm.errors),
           << >>,
           << "#", "#", " ", "Details" >> >>
      details == Flatten([ i \in 1 .. Len(rs) |-> resultLines(rs[i]) ])
  IN  join(header \o details, << "\n" >>)

----------------------------------------------------------------------------
(* lib/logger.js *)

\* '='.repeat(60), one token for the run of 60 '='
separator == << "={60}" >>

\* append that writes the block with writeFile instead of appendFile
appendOverwrites(file, content, t) ==
  separator \o << "\n" >> \o Calendar \o << " " >> \o toISOString(t)
       \o << "\n" >> \o separator \o << "\n" >> \o content \o << "\n", "\n" >>

\* the file content after append(logPath, content) at time t
append(file, content, t) ==
  file \o separator \o << "\n" >> \o Calendar \o << " " >> \o toISOString(t)
       \o << "\n" >> \o separator \o << "\n" >> \o content \o << "\n", "\n" >>

----------------------------------------------------------------------------
(* string and regular-expression primitives of the parsers *)

\* the result of a match that failed (every group that is read is non-empty)
NoMatch == << >>

\* the first position >= from at which p occurs in s, 0 when there is none
IndexOf(s, p, from) ==
  LET hits == { i \in from .. Len(s) - Len(p) + 1 :
                  s[i] = p[1] /\ SubSeq(s, i, i + Len(p) - 1) = p }
  IN  IF hits = {} THEN 0 ELSE CHOOSE i \in hits : \A j \in hits : i <= j

RECURSIVE split(_, _)
\* s.split(p) for a pattern p that matches one fixed text
split(s, p) ==
  LET i == IndexOf(s, p, 1)
  IN  IF i = 0 THEN << s >>
      ELSE << SubSeq(s, 1, i - 1) >> \o split(SubSeq(s, i + Len(p), Len(s)), p)

RECURSIVE trimStart(_)
trimStart(s) == IF s /= << >> /\ IsSpace(Head(s)) THEN trimStart(Tail(s)) ELSE s

RECURSIVE trimEnd(_)
trimEnd(s) ==
  IF s /= << >> /\ IsSpace(s[Len(s)]) THEN trimEnd(SubSeq(s, 1, Len(s) - 1)) ELSE s

\* s.trim()
trim(s) == trimEnd(trimStart(s))

RECURSIVE RunLength(_, _, _)
\* the length of the longest run of characters of class cls starting at s[from]
RunLength(s, from, cls) ==
  IF from <= Len(s) /\ s[from] \in cls THEN 1 + RunLength(s, from + 1, cls) ELSE 0

RECURSIVE parseDigits(_, _, _)
parseDigits(s, from, acc) ==
  IF from <= Len(s) /\ IsDigit(s[from])
    THEN parseDigits(s, from + 1, 10 * acc + DigitValue(s[from]))
    ELSE acc

\* parseInt(s) is NaN: s does not start with a digit
isNaN(s) == s = << >> \/ ~IsDigit(s[1])

\* parseInt(s) when it is a number: the value of the leading decimal digits
parseInt(s) == parseDigits(s, 1, 0)

DigitSet == { DigitChars[d] : d \in 1 .. 10 }

----------------------------------------------------------------------------
(* lib/logger.js: write and readRecent *)

\* the file content after write(logPath, content)
write(file, content) == content

\* the length of the text /={60}\n<U+1F4C5> \d{4}-\d{2}-\d{2}T/ matches
MarkerLength == 16

\* /={60}\n<U+1F4C5> \d{4}-\d{2}-\d{2}T/ matches s at position i
markerAt(s, i) ==
  /\ i + MarkerLength - 1 <= Len(s)
  /\ SubSeq(s, i, i + 4) = separator \o << "\n" >> \o Calendar \o << " " >>
  /\ \A k \in {5, 6, 7, 8, 10, 11, 13, 14} : IsDigit(s[i + k])
  /\ s[i + 9] = "-" /\ s[i + 12] = "-"
  /\ s[i + 15] = "T"

RECURSIVE splitMarker(_)
\* content.split(/={60}\n<U+1F4C5> \d{4}-\d{2}-\d{2}T/)
splitMarker(s) ==
  LET hits == { i \in 1 .. Len(s) : markerAt(s, i) }
  IN  IF hits = {} THEN << s >>
      ELSE LET i == CHOOSE h \in hits : \A g \in hits : h <= g
           IN  << SubSeq(s, 1, i - 1) >>
                 \o splitMarker(SubSeq(s, i + MarkerLength, Len(s)))

\* arr.slice(start): from start when start >= 0, from the end when start < 0
slice(arr, start) ==
  LET from == IF start < 0
                THEN (IF Len(arr) + start < 0 THEN 0 ELSE Len(arr) + start)
                ELSE (IF start > Len(arr) THEN Len(arr) ELSE start)
  IN  SubSeq(arr, from + 1, Len(arr))

\* readRecent(logPath, n); readable is whether fs.readFile succeeds
readRecent(state, file, readable, n) ==
  IF state = "absent" THEN << >>
  ELSE IF ~readable THEN << >>
  ELSE slice(splitMarker(file), 0 - n)

----------------------------------------------------------------------------
(* analyze-trends.js: parseHealthCheckLog *)

\* content.split(/={60}\n<U+1F4C5> /)
rawEntries(content) == split(content, separator \o << "\n" >> \o Calendar \o << " " >>)

\* entry.match(/^([\d-]+T[\d:]+.[\d:]+)\n/): the text of group 1, or NoMatch.
\* [\d-]+ must end where the T is, and the three parts [\d:]+ . [\d:]+ must fill
\* the line from the T to the first newline
timestampMatch(entry) ==
  LET d  == RunLength(entry, 1, DigitSet \cup {"-"})
      nl == IndexOf(entry, << "\n" >>, 1)
  IN  IF /\ d >= 1
         /\ d + 1 <= Len(entry)
         /\ entry[d + 1] = "T"
         /\ nl > d + 1
         /\ \E c \in d + 3 .. nl - 2 :
              /\ \A i \in d + 2 .. c - 1 : entry[i] \in DigitSet \cup {":"}
              /\ \A i \in c + 1 .. nl - 1 : entry[i] \in DigitSet \cup {":"}
        THEN SubSeq(entry, 1, nl - 1)
        ELSE NoMatch

\* new Date(text).getTime() for a text laid out as toISOString lays it out
\* (0 - 1 stands for the NaN of an Invalid Date)
Date(text) ==
  IF Len(text) >= 23 /\ ~isNaN(SubSeq(text, 18, 19)) /\ ~isNaN(SubSeq(text, 21, 23))
    THEN parseInt(SubSeq(text, 18, 19)) * 1000 + parseInt(SubSeq(text, 21, 23))
    ELSE 0 - 1

\* entry.match(/## Summary\n([\s\S]+?)##/): the text of group 1, or NoMatch
summaryMatch(entry) ==
  LET open  == << "#", "#", " ", "Summary", "\n" >>
      i     == IndexOf(entry, open, 1)
      from  == i + Len(open)
      \* the lazy group takes at least one character
      close == IF i = 0 THEN 0 ELSE IndexOf(entry, << "#", "#" >>, from + 1)
  IN  IF i = 0 \/ close = 0 THEN NoMatch ELSE SubSeq(entry, from, close - 1)

SummaryKeys == {"Total", "Passed", "Warnings", "Failed", "Errors", "Overall"}

\* key.toLowerCase(), the field of summary the line sets
toLowerCase(key) ==
  CASE key = "Total"    -> "total"
    [] key = "Passed"   -> "passed"
    [] key = "Warnings" -> "warnings"
    [] key = "Failed"   -> "failed"
    [] key = "Errors"   -> "errors"
    [] key = "Overall"  -> "overall"

StatusWords == {"PASS", "WARNING", "FAIL", "ERROR", "UNKNOWN"}

StartsWith(s, from, p) ==
  from + Len(p) - 1 <= Len(s) /\ SubSeq(s, from, from + Len(p) - 1) = p

\* group 2 of the summary-line pattern, tried at position v:
\* (:?\d+|U+2705|U+26A0 U+FE0F|U+274C|U+1F4A5|PASS|WARNING|FAIL|ERROR|UNKNOWN)
summaryValue(line, v) ==
  LET colon == IF v <= Len(line) /\ line[v] = ":" THEN 1 ELSE 0
      n1 == RunLength(line, v + colon, DigitSet)
      n0 == RunLength(line, v, DigitSet)
  IN  IF n1 > 0 THEN SubSeq(line, v, v + colon + n1 - 1)
      ELSE IF n0 > 0 THEN SubSeq(line, v, v + n0 - 1)
      ELSE IF StartsWith(line, v, CheckMark) THEN CheckMark
      ELSE IF StartsWith(line, v, WarningSign) THEN WarningSign
      ELSE IF StartsWith(line, v, CrossMark) THEN CrossMark
      ELSE IF StartsWith(line, v, Collision) THEN Collision
      ELSE IF v <= Len(line) /\ line[v] \in StatusWords THEN << line[v] >>
      ELSE NoMatch

RECURSIVE summaryLineMatch(_, _)
\* line.match(/(Total|Passed|Warnings|Failed|Errors|Overall):\s*(...)/i) searched
\* from position k: << group 1, group 2 >> of the leftmost match, or NoMatch
summaryLineMatch(line, k) ==
  IF k + 1 > Len(line) THEN NoMatch
  ELSE IF line[k] \in SummaryKeys /\ line[k + 1] = ":"
    THEN LET sp == RunLength(line, k + 2, {" ", "\n"})
             \* \s* is greedy and gives characters back on failure; none of the
             \* alternatives of group 2 starts with white space
             v  == summaryValue(line, k + 2 + sp)
         IN  IF v /= NoMatch THEN << line[k], v >> ELSE summaryLineMatch(line, k + 1)
    ELSE summaryLineMatch(line, k + 1)

Contains(s, p) == IndexOf(s, p, 1) /= 0

\* the body of the loop over summaryLines: summary after one line
summaryStep(sm, line) ==
  LET match == summaryLineMatch(line, 1)
  IN  IF match = NoMatch THEN sm
      ELSE LET key   == toLowerCase(match[1])
               value == match[2]
           IN  IF key = "overall"
                 THEN IF Contains(value, CheckMark) \/ Contains(value, << "PASS" >>)
                        THEN [sm EXCEPT !.overallStatus = "pass"]
                      ELSE IF Contains(value, WarningSign) \/ Contains(value, << "WARNING" >>)
                        THEN [sm EXCEPT !.overallStatus = "warning"]
                      ELSE IF Contains(value, CrossMark) \/ Contains(value, << "FAIL" >>)
                        THEN [sm EXCEPT !.overallStatus = "fail"]
                      ELSE IF Contains(value, Collision) \/ Contains(value, << "ERROR" >>)
                        THEN [sm EXCEPT !.overallStatus = "error"]
                      ELSE sm
                 ELSE [sm EXCEPT ![key] = IF isNaN(value) THEN 0 ELSE parseInt(value)]

RECURSIVE foldSummary(_, _)
foldSummary(sm, lines) ==
  IF lines = << >> THEN sm ELSE foldSummary(summaryStep(sm, Head(lines)), Tail(lines))

\* the summary parseHealthCheckLog builds from group 1 of summaryMatch
parseSummary(text) ==
  foldSummary([ total |-> 0, passed |-> 0, warnings |-> 0, failed |-> 0,
                errors |-> 0, overallStatus |-> "unknown" ],
              split(trim(text), << "\n" >>))

\* entry.match(/## Details\n([\s\S]+)$/): the text of group 1, or NoMatch
detailsMatch(entry) ==
  LET open == << "#", "#", " ", "Details", "\n" >>
      i    == IndexOf(entry, open, 1)
  IN  IF i = 0 \/ i + Len(open) > Len(entry) THEN NoMatch
      ELSE SubSeq(entry, i + Len(open), Len(entry))

\* the code units of the character class [U+2705 U+26A0 U+FE0F U+274C U+1F4A5 U+2753]
\* (the pattern has no u flag, so the class holds code units, not glyphs)
CheckGlyphClass == {"u2705", "u26A0", "uFE0F", "u274C", "uD83D", "uDCA5", "u2753"}

\* \s+\[(\d+)ms\] at position k: the position of the first digit, or 0
durationAt(line, k) ==
  LET sp == RunLength(line, k, {" ", "\n"})
      b  == k + sp
      n  == RunLength(line, b + 1, DigitSet)
  IN  IF /\ sp >= 1
         /\ b <= Len(line) /\ line[b] = "["
         /\ n >= 1
         /\ StartsWith(line, b + 1 + n, << "ms", "]" >>)
        THEN b + 1
        ELSE 0

RECURSIVE nameEnd(_, _)
\* (.+?) starting at position from, tried with its end at e, e + 1, ...: the
\* first end after which \s+\[(\d+)ms\] matches, or 0
nameEnd(line, e) ==
  IF e > Len(line) THEN 0
  ELSE IF durationAt(line, e + 1) /= 0 THEN e
  ELSE nameEnd(line, e + 1)

RECURSIVE checkMatch(_, _)
\* line.match(/([...])\s+(.+?)\s+\[(\d+)ms\]/) searched from position k:
\* << group 1, group 2, group 3 >> of the leftmost match, or NoMatch
checkMatch(line, k) ==
  IF k > Len(line) THEN NoMatch
  ELSE LET sp   == RunLength(line, k + 1, {" ", "\n"})
           \* \s+ is greedy; when the name cannot start after all the white
           \* space it gives characters back, so the name may start with it
           tries == { j \in 1 .. sp : nameEnd(line, k + 1 + j) /= 0 }
       IN  IF line[k] \in CheckGlyphClass /\ tries /= {}
             THEN LET j == CHOOSE x \in tries : \A y \in tries : y <= x
                      from == k + 1 + j
                      e == nameEnd(line, from)
                      d == durationAt(line, e + 1)
                  IN  << << line[k] >>,
                         SubSeq(line, from, e),
                         SubSeq(line, d, d + RunLength(line, d, DigitSet) - 1) >>
             ELSE checkMatch(line, k + 1)

\* the status chain of the Details loop: emoji === glyph compares whole strings
glyphStatus(emoji) ==
  IF emoji = CheckMark THEN "pass"
  ELSE IF emoji = WarningSign THEN "warning"
  ELSE IF emoji = CrossMark THEN "fail"
  ELSE IF emoji = Collision THEN "error"
  ELSE "unknown"

RECURSIVE parseChecks(_)
\* the checks pushed for the lines of the Details section
parseChecks(lines) ==
  IF lines = << >> THEN << >>
  ELSE LET m == checkMatch(Head(lines), 1)
       IN  (IF m = NoMatch THEN << >>
            ELSE << [ name |-> trim(m[2]), status |-> glyphStatus(m[1]),
                      duration |-> parseInt(m[3]) ] >>)
           \o parseChecks(Tail(lines))

\* the body of the loop over rawEntries: the entries pushed for one raw entry
parseEntry(entry) ==
  IF trim(entry) = << >> THEN << >>
  ELSE IF timestampMatch(entry) = NoMatch THEN << >>
  ELSE IF summaryMatch(entry) = NoMatch THEN << >>
  ELSE << [ timestamp |-> Date(timestampMatch(entry)),
            summary   |-> parseSummary(summaryMatch(entry)),
            checks    |-> IF detailsMatch(entry) = NoMatch THEN << >>
                          ELSE parseChecks(split(detailsMatch(entry), << "\n" >>)) ] >>

RECURSIVE insertSorted(_, _)
insertSorted(sorted, e) ==
  IF sorted = << >> THEN << e >>
  ELSE IF e.timestamp < Head(sorted).timestamp THEN << e >> \o sorted
  ELSE << Head(sorted) >> \o insertSorted(Tail(sorted), e)

RECURSIVE sortByTimestamp(_)
\* entries.sort((a, b) => a.timestamp - b.timestamp), a stable sort
sortByTimestamp(es) ==
  IF es = << >> THEN << >>
  ELSE insertSorted(sortByTimestamp(SubSeq(es, 1, Len(es) - 1)), es[Len(es)])

RECURSIVE parseEntries(_)
parseEntries(raw) ==
  IF raw = << >> THEN << >> ELSE parseEntry(Head(raw)) \o parseEntries(Tail(raw))

parseHealthCheckLog(content) == sortByTimestamp(parseEntries(rawEntries(content)))

----------------------------------------------------------------------------
(* notifier.js *)

\* how a delegate script's subprocess ends: 'close' with an exit code, or
\* 'error' (spawn failed); "throws" is an exception while the message or the
\* subprocess is being set up
\* const statusEmoji of sendTelegram: the glyph of the title for each overall
\* status it knows
telegramStatusEmoji ==
  [ pass |-> CheckMark, warning |-> WarningSign, fail |-> CrossMark ]

ChannelOutcomes == {"exit0", "exit1", "spawnError", "throws"}

\* channelResult that does not look at the exit code on 'close'
channelResultAnyCloseSucceeds(outcome) ==
  CASE outcome = "exit0"      -> [success |-> TRUE, output |-> "stdout"]
    [] outcome = "exit1"      -> [success |-> TRUE, output |-> "stdout"]
    [] outcome = "spawnError" -> [success |-> FALSE, error |-> "err.message"]

\* the object the promise of sendTelegram / sendNotion resolves with
channelResult(outcome) ==
  CASE outcome = "exit0"      -> [success |-> TRUE, output |-> "stdout"]
    [] outcome = "exit1"      -> [success |-> FALSE, error |-> "stderr"]
    [] outcome = "spawnError" -> [success |-> FALSE, error |-> "err.message"]

\* one try/catch block of send: the record pushed for a channel
channelRecord(channel, outcome) ==
  IF outcome = "throws"
    THEN [channel |-> channel, success |-> FALSE, error |-> "error.message"]
    ELSE channelResult(outcome) @@ [channel |-> channel]

----------------------------------------------------------------------------
(* the run of health-check.js *)

\* the health log when the run starts: absent or empty, or holding the block
\* of an earlier run
PriorLogs == { << >>, append(<< >>, << "earlier", " ", "report" >>, 0) }

Init ==
  /\ pc = "loop"
  /\ argv \in SUBSET {"--full", "--notify", "--dry-run"}
  /\ env \in [ HEALTH_CHECK_ALERT_ONLY : AlertOnlyValues,
               HEALTH_CHECK_NOTION_DB_ID : NotionDbIdValues ]
  /\ now = 0
  /\ idx = 1
  /\ startTime = 0
  /\ invoked = << >>
  /\ settled = << >>
  /\ results = << >>
  /\ console = << >>
  /\ summary = NoValue
  /\ reportText = << >>
  /\ logFile \in PriorLogs
  /\ sendCalls = 0
  /\ sendResults = << >>
  /\ attempts = << >>
  /\ exitCode = NoValue
  /\ appended = << >>
  /\ entries = << >>
  /\ fileState = "present"
  /\ recent = << >>
  /\ fixture = NoValue
  /\ verdict = NoValue

\* for (const check of checksToRun): runCheck is entered and check.fn called
StartCheck ==
  /\ pc = "loop"
  /\ idx <= Len(checksToRun)
  /\ pc' = "await"
  /\ startTime' = now
  /\ invoked' = Append(invoked, checksToRun[idx])
  /\ UNCHANGED <<argv, env, now, idx, settled, results, console, summary, reportText,
                 logFile, sendCalls, sendResults, attempts, exitCode, appended, entries>>
  /\ UNCHANGED harnessVars

\* FinishCheck without runCheck's try/catch: a check that throws ends the loop
FinishCheckAborts ==
  /\ pc = "await"
  /\ \E behaviour \in CheckBehaviours(checksToRun[idx]),
        d \in Durations(checksToRun[idx]) :
       LET result == runCheck(checksToRun[idx], behaviour, startTime, now + d)
       IN  /\ now' = now + d
           /\ settled' = Append(settled, behaviour)
           /\ IF behaviour.kind = "throws"
                THEN /\ pc' = "fatal"
                     /\ UNCHANGED <<results, console, idx>>
                ELSE /\ results' = Append(results, result)
                     /\ console' = Append(console, result.name)
                     /\ idx' = idx + 1
                     /\ pc' = "loop"
  /\ UNCHANGED <<argv, env, startTime, invoked, summary, reportText, logFile,
                 sendCalls, sendResults, attempts, exitCode, appended, entries>>
  /\ UNCHANGED harnessVars

\* FinishCheck with a timeout: runCheck gives up on a check that has not
\* settled and records an error for it
FinishCheckTimesOut ==
  /\ pc = "await"
  /\ results' = Append(results, [ name |-> checksToRun[idx], status |-> "error",
                                  duration |-> 0, error |-> << "timeout" >> ])
  /\ console' = Append(console, checksToRun[idx])
  /\ idx' = idx + 1
  /\ pc' = "loop"
  /\ UNCHANGED <<argv, env, now, startTime, invoked, settled, summary, reportText,
                 logFile, sendCalls, sendResults, attempts, exitCode, appended, entries>>
  /\ UNCHANGED harnessVars

\* the check settles after some time; its record is pushed and printed
FinishCheck ==
  /\ pc = "await"
  /\ \E behaviour \in CheckBehaviours(checksToRun[idx]),
        d \in Durations(checksToRun[idx]) :
       LET result == runCheck(checksToRun[idx], behaviour, startTime, now + d)
       IN  /\ now' = now + d
           /\ results' = Append(results, result)
           /\ console' = Append(console, result.name)
           /\ settled' = Append(settled, behaviour)
  /\ idx' = idx + 1
  /\ pc' = "loop"
  /\ UNCHANGED <<argv, env, startTime, invoked, summary, reportText, logFile,
                 sendCalls, sendResults, attempts, exitCode, appended, entries>>
  /\ UNCHANGED harnessVars

\* Summarize that does not wait for the last check
SummarizeEarly ==
  /\ pc = "loop"
  /\ idx >= Len(checksToRun)
  /\ summary' = generateSummary(results, now)
  /\ reportText' = formatResults(results, summary', now)
  /\ pc' = "log"
  /\ UNCHANGED <<argv, env, now, idx, startTime, invoked, settled, results, console,
                 logFile, sendCalls, sendResults, attempts, exitCode, appended, entries>>
  /\ UNCHANGED harnessVars

\* generateSummary and formatResults after the loop
Summarize ==
  /\ pc = "loop"
  /\ idx > Len(checksToRun)
  /\ summary' = generateSummary(results, now)
  /\ reportText' = formatResults(results, summary', now)
  /\ pc' = "log"
  /\ UNCHANGED <<argv, env, now, idx, startTime, invoked, settled, results, console,
                 logFile, sendCalls, sendResults, attempts, exitCode, appended, entries>>
  /\ UNCHANGED harnessVars

\* WriteLog without the if (!options.dryRun) guard
WriteLogIgnoresDryRun ==
  /\ pc = "log"
  /\ logFile' = append(logFile, reportText, now)
  /\ appended' = Append(appended, [content |-> reportText, time |-> now])
  /\ pc' = "notify"
  /\ UNCHANGED <<argv, env, now, idx, startTime, invoked, settled, results, console,
                 summary, reportText, sendCalls, sendResults, attempts, exitCode, entries>>
  /\ UNCHANGED harnessVars

\* if (!options.dryRun) await logger.append(...)
WriteLog ==
  /\ pc = "log"
  /\ IF parseArgs.dryRun
       THEN UNCHANGED <<logFile, appended>>
       ELSE /\ logFile' = append(logFile, reportText, now)
            /\ appended' = Append(appended, [content |-> reportText, time |-> now])
  /\ pc' = "notify"
  /\ UNCHANGED <<argv, env, now, idx, startTime, invoked, settled, results, console,
                 summary, reportText, sendCalls, sendResults, attempts, exitCode, entries>>
  /\ UNCHANGED harnessVars

\* logger.append rejects (appendFile fails): main rejects, main().catch runs
WriteLogFails ==
  /\ pc = "log"
  /\ ~parseArgs.dryRun
  /\ pc' = "fatal"
  /\ UNCHANGED <<argv, env, now, idx, startTime, invoked, settled, results, console,
                 summary, reportText, logFile, sendCalls, sendResults, attempts, exitCode,
                 appended, entries>>
  /\ UNCHANGED harnessVars

shouldNotify == ~CONFIG.alertOnly \/ summary.overallStatus /= "pass"

\* if (options.notify) { if (shouldNotify) await notifier.send(...) }:
\* send is entered and the Telegram channel attempted
SendTelegram ==
  /\ pc = "notify"
  /\ parseArgs.notify /\ shouldNotify
  /\ sendCalls' = sendCalls + 1
  /\ \E outcome \in ChannelOutcomes :
       /\ sendResults' = << channelRecord("telegram", outcome) >>
       /\ attempts' = << [channel |-> "telegram", outcome |-> outcome] >>
  /\ pc' = "notion"
  /\ UNCHANGED <<argv, env, now, idx, startTime, invoked, settled, results, console,
                 summary, reportText, logFile, exitCode, appended, entries>>
  /\ UNCHANGED harnessVars

\* SendNotion without the if (config.notionDbId) guard
SendNotionUnconditional ==
  /\ pc = "notion"
  /\ \E outcome \in ChannelOutcomes :
       /\ sendResults' = Append(sendResults, channelRecord("notion", outcome))
       /\ attempts' = Append(attempts, [channel |-> "notion", outcome |-> outcome])
  /\ pc' = "exit"
  /\ UNCHANGED <<argv, env, now, idx, startTime, invoked, settled, results, console,
                 summary, reportText, logFile, sendCalls, exitCode, appended, entries>>
  /\ UNCHANGED harnessVars

\* if (config.notionDbId) the Notion channel is attempted; send returns
SendNotion ==
  /\ pc = "notion"
  /\ IF Truthy(CONFIG.notionDbId)
       THEN \E outcome \in ChannelOutcomes :
              /\ sendResults' = Append(sendResults, channelRecord("notion", outcome))
              /\ attempts' = Append(attempts, [channel |-> "notion", outcome |-> outcome])
       ELSE UNCHANGED <<sendResults, attempts>>
  /\ pc' = "exit"
  /\ UNCHANGED <<argv, env, now, idx, startTime, invoked, settled, results, console,
                 summary, reportText, logFile, sendCalls, exitCode, appended, entries>>
  /\ UNCHANGED harnessVars

\* notification not requested, or skipped in alert-only mode
SkipNotify ==
  /\ pc = "notify"
  /\ ~(parseArgs.notify /\ shouldNotify)
  /\ pc' = "exit"
  /\ UNCHANGED <<argv, env, now, idx, startTime, invoked, settled, results, console,
                 summary, reportText, logFile, sendCalls, sendResults, attempts, exitCode,
                 appended, entries>>
  /\ UNCHANGED harnessVars

\* exitCodeOf that lets a warning run exit with 0
exitCodeOfWarningPasses(sm) == IF sm.overallStatus = "fail" THEN 1 ELSE 0

\* const exitCode = summary.overallStatus === 'pass' ? 0 : 1
exitCodeOf(sm) == IF sm.overallStatus = "pass" THEN 0 ELSE 1

\* process.exit(exitCode) at the end of main
Exit ==
  /\ pc = "exit"
  /\ exitCode' = exitCodeOf(summary)
  /\ pc' = "done"
  /\ UNCHANGED <<argv, env, now, idx, startTime, invoked, settled, results, console,
                 summary, reportText, logFile, sendCalls, sendResults, attempts, appended, entries>>
  /\ UNCHANGED harnessVars

\* Fatal that exits with the code of the overall status
FatalExitsByStatus ==
  /\ pc = "fatal"
  /\ exitCode' = exitCodeOf(summary)
  /\ pc' = "failed"
  /\ UNCHANGED <<argv, env, now, idx, startTime, invoked, settled, results, console,
                 summary, reportText, logFile, sendCalls, sendResults, attempts, appended, entries>>
  /\ UNCHANGED harnessVars

\* main().catch: process.exit(1)
Fatal ==
  /\ pc = "fatal"
  /\ exitCode' = 1
  /\ pc' = "failed"
  /\ UNCHANGED <<argv, env, now, idx, startTime, invoked, settled, results, console,
                 summary, reportText, logFile, sendCalls, sendResults, attempts, appended, entries>>
  /\ UNCHANGED harnessVars

Next ==
  \/ StartCheck
  \/ FinishCheck
  \/ Summarize
  \/ WriteLog
  \/ WriteLogFails
  \/ SendTelegram
  \/ SendNotion
  \/ SkipNotify
  \/ Exit
  \/ Fatal

Spec == Init /\ [][Next]_vars

\* The run when everything that main awaits settles: the check function
\* (FinishCheck), logger.append (WriteLog, WriteLogFails) and the two
\* subprocesses (SendTelegram, SendNotion); the synchronous steps of main
\* between two awaits always run.  At every position of the run the steps
\* that can be taken are those of one operation, so fairness of Next is
\* fairness of each of them.  The runs are the quick runs with the log
\* empty, alert-only mode on (the default) or off and the Notion database
\* configured or not, and the full runs without notification.
InitFair ==
  /\ Init
  /\ env.HEALTH_CHECK_ALERT_ONLY \in {NoValue, "false"}
  /\ env.HEALTH_CHECK_NOTION_DB_ID \in {NoValue, "db-1"}
  /\ logFile = << >>
  /\ "--full" \in argv =>
       /\ "--notify" \notin argv
       /\ env.HEALTH_CHECK_ALERT_ONLY = NoValue
       /\ env.HEALTH_CHECK_NOTION_DB_ID = NoValue

SpecFair == InitFair /\ [][Next]_vars /\ WF_vars(Next)

----------------------------------------------------------------------------
(* Properties of the run (Spec) *)

Statuses(rs) == [ i \in 1 .. Len(rs) |-> rs[i].status ]

IsPrefix(p, q) == Len(p) <= Len(q) /\ SubSeq(q, 1, Len(p)) = p

\* the positions at which main holds a summary
Summarized == pc \in {"log", "notify", "notion", "exit", "fatal", "done", "failed"}

\* C1: the overall status of the summary is 'fail' if at least one result is
\* 'fail' or 'error', otherwise 'warning' if at least one result is 'warning',
\* otherwise 'pass'; it is 'pass' when every result is 'pass'
C1_OverallStatus ==
  Summarized =>
    /\ summary.overallStatus =
         IF \E i \in 1 .. Len(results) : results[i].status \in {"fail", "error"}
           THEN "fail"
         ELSE IF \E i \in 1 .. Len(results) : results[i].status = "warning"
           THEN "warning"
         ELSE "pass"
    /\ (\A i \in 1 .. Len(results) : results[i].status = "pass")
         => summary.overallStatus = "pass"

\* a run with warnings and no fail or error has been summarized as 'warning'
C1_Witness ==
  /\ pc = "log"
  /\ \E i \in 1 .. Len(results) : results[i].status = "warning"
  /\ \A i \in 1 .. Len(results) : results[i].status \in {"pass", "warning"}
  /\ summary.overallStatus = "warning"

\* C2: when main reaches its final process.exit, the exit code is 0 if and
\* only if the overall status is 'pass' and 1 otherwise, whatever the notifier
\* did; the quick run pass, pass, fail gives 3 / 2 / 0 / 1 / 0, 'fail', exit 1
C2_ExitCode ==
  pc = "done" =>
    /\ exitCode = 0 <=> summary.overallStatus = "pass"
    /\ exitCode = 1 <=> summary.overallStatus /= "pass"
    /\ ("--full" \notin argv /\ Statuses(results) = << "pass", "pass", "fail" >>)
         => /\ summary.total = 3 /\ summary.passed = 2 /\ summary.warnings = 0
            /\ summary.failed = 1 /\ summary.errors = 0
            /\ summary.overallStatus = "fail"
            /\ exitCode = 1

\* the quick run pass, pass, fail has exited with 1 after a notification
\* whose Telegram channel failed
C2_Witness ==
  /\ pc = "done"
  /\ "--full" \notin argv
  /\ Statuses(results) = << "pass", "pass", "fail" >>
  /\ exitCode = 1
  /\ sendCalls = 1
  /\ sendResults[1].success = FALSE

\* C3: a check that throws does not end the run: every selected check is
\* invoked, results holds one record per selected check in selection order;
\* the record of a check that threw has status 'error', the name, a duration
\* and the exception message, the record of a check that returned has the
\* name and the returned status ('unknown' when it returned none)
C3_ChecksNeverAbort ==
  /\ Len(settled) = Len(results)
  /\ \A i \in 1 .. Len(results) :
       /\ results[i].name = checksToRun[i]
       /\ "duration" \in DOMAIN results[i]
       /\ results[i].duration \in Nat
       /\ settled[i].kind = "throws" =>
            /\ results[i].status = "error"
            /\ "error" \in DOMAIN results[i]
            /\ results[i].error = settled[i].message
       /\ settled[i].kind = "returns" =>
            results[i].status = IF "status" \in DOMAIN settled[i].value
                                  THEN settled[i].value.status ELSE "unknown"
  /\ pc \notin {"loop", "await"} =>
       /\ invoked = checksToRun
       /\ Len(results) = Len(checksToRun)

\* a full run in which the first and the last check threw holds five records
C3_Witness ==
  /\ pc = "log"
  /\ Len(results) = 5
  /\ settled[1].kind = "throws"
  /\ settled[5].kind = "throws"
  /\ settled[2].kind = "returns"

\* C4: without --full the checks Config Check, Syntax Check, Dependencies
\* Check run, in this order; with --full these three, Logs Analysis and Git
\* Status; a check is started only when the record of the one before it has
\* been pushed and printed
C4_SelectionAndOrder ==
  LET quick == << << "Config", " ", "Check" >>, << "Syntax", " ", "Check" >>,
                  << "Dependencies", " ", "Check" >> >>
      selected == IF "--full" \in argv
                    THEN quick \o << << "Logs", " ", "Analysis" >>,
                                     << "Git", " ", "Status" >> >>
                    ELSE quick
  IN  /\ IsPrefix(invoked, selected)
      /\ pc \notin {"loop", "await"} => invoked = selected
      /\ Len(invoked) = Len(results) + (IF pc = "await" THEN 1 ELSE 0)
      /\ Len(console) = Len(results)
      /\ \A i \in 1 .. Len(results) :
           results[i].name = invoked[i] /\ console[i] = invoked[i]

\* the fourth check of a full run is in progress, three records pushed and printed
C4_Witness ==
  /\ pc = "await"
  /\ "--full" \in argv
  /\ Len(results) = 3
  /\ Len(console) = 3
  /\ invoked[4] = << "Logs", " ", "Analysis" >>

\* notionDbId is set: the environment gives it a non-empty value
NotionConfigured == env.HEALTH_CHECK_NOTION_DB_ID \notin {NoValue, ""}

\* C8: the list notifier.send returns has one 'telegram' record, followed by
\* one 'notion' record when notionDbId is set and by nothing otherwise
C8_Channels ==
  /\ sendCalls = 0 => sendResults = << >>
  /\ (sendCalls = 1 /\ pc \in {"exit", "done"}) =>
       /\ Len(sendResults) = IF NotionConfigured THEN 2 ELSE 1
       /\ sendResults[1].channel = "telegram"
       /\ NotionConfigured => sendResults[2].channel = "notion"

\* send has returned a 'telegram' record and a 'notion' record
C8_Witness ==
  /\ pc = "exit"
  /\ sendCalls = 1
  /\ NotionConfigured
  /\ Len(sendResults) = 2

\* C9: whatever the Telegram attempt does, Notion is attempted when it is
\* configured; send never throws; a failed channel is a record with success
\* false and an error text, a channel whose subprocess exited with 0 a record
\* with success true
C9_ChannelsIndependent ==
  /\ Len(attempts) = Len(sendResults)
  /\ \A i \in 1 .. Len(sendResults) :
       /\ sendResults[i].channel = attempts[i].channel
       /\ attempts[i].outcome = "exit0" => sendResults[i].success = TRUE
       /\ attempts[i].outcome /= "exit0" =>
            /\ sendResults[i].success = FALSE
            /\ "error" \in DOMAIN sendResults[i]
  /\ sendCalls = 1 => pc \in {"notion", "exit", "done"}
  /\ (sendCalls = 1 /\ pc \in {"exit", "done"} /\ NotionConfigured) =>
       /\ Len(attempts) = 2
       /\ attempts[2].channel = "notion"

\* the Telegram attempt threw and the Notion attempt succeeded after it
C9_Witness ==
  /\ pc = "exit"
  /\ Len(attempts) = 2
  /\ attempts[1].outcome = "throws"
  /\ attempts[2].outcome = "exit0"
  /\ sendResults[1].success = FALSE
  /\ sendResults[2].success = TRUE

\* --notify was given and alert-only mode is off or the overall status is not
\* 'pass'; alert-only mode is on unless HEALTH_CHECK_ALERT_ONLY is 'false'
NotifyWanted ==
  /\ "--notify" \in argv
  /\ env.HEALTH_CHECK_ALERT_ONLY = "false" \/ summary.overallStatus /= "pass"

\* C10, as claimed: in a run, notifier.send is invoked if and only if
\* NotifyWanted
C10_AlertOnlyGatingEveryRun ==
  pc \in {"done", "failed"} => (sendCalls = 1 <=> NotifyWanted)

\* C10, amended: in a run that reaches its final exit, notifier.send is
\* invoked once if NotifyWanted and not at all otherwise; a run that ends in
\* main().catch because the log append failed invokes it never
C10_AlertOnlyGating ==
  /\ pc \in {"exit", "done"} => sendCalls = (IF NotifyWanted THEN 1 ELSE 0)
  /\ pc \in {"fatal", "failed"} => sendCalls = 0

\* an all-pass run with --notify and alert-only mode on has ended without a send
C10_Witness ==
  /\ pc = "done"
  /\ "--notify" \in argv
  /\ env.HEALTH_CHECK_ALERT_ONLY /= "false"
  /\ summary.overallStatus = "pass"
  /\ sendCalls = 0

\* the block the log gains by one append: a separator line of 60 '=', the
\* marker line with the time, the separator line again, the text and two
\* newlines
Block(content, t) ==
  << "={60}", "\n" >> \o Calendar \o << " " >> \o toISOString(t) \o << "\n" >>
    \o << "={60}", "\n" >> \o content \o << "\n", "\n" >>

\* the run has got past the log step
PastLog == pc \in {"notify", "notion", "exit", "done"}

\* C11, as claimed: every run without --dry-run that has completed its checks
\* has, when it ends, appended exactly one block
C11_EveryRunAppendsOnce ==
  (pc \in {"done", "failed"} /\ "--dry-run" \notin argv) => Len(appended) = 1

\* C11, amended: a run with --dry-run never changes the log; a run without it
\* changes the log once, at the log step, by adding one block holding the
\* report, provided the append succeeds; status of every record, summary
\* counts and exit code at the final exit are determined by what the checks
\* did, in both modes alike
C11_DryRunLeavesLog ==
  /\ [][ "--dry-run" \in argv => logFile' = logFile ]_vars
  /\ [][ logFile' /= logFile =>
           /\ pc = "log" /\ pc' = "notify"
           /\ appended = << >>
           /\ logFile' = logFile \o Block(reportText, now) ]_vars
  /\ [](PastLog => Len(appended) = (IF "--dry-run" \in argv THEN 0 ELSE 1))
  /\ [](pc = "done" =>
          /\ \A i \in 1 .. Len(results) :
               results[i].status = IF settled[i].kind = "throws" THEN "error"
                                   ELSE settled[i].value.status
          /\ summary.total = Len(results)
          /\ summary.passed =
               Cardinality({i \in 1 .. Len(results) : results[i].status = "pass"})
          /\ exitCode = IF \A i \in 1 .. Len(results) : results[i].status = "pass"
                          THEN 0 ELSE 1)

\* a dry run over a log that holds an earlier block has ended, the log as it was
C11_Witness ==
  /\ pc = "done"
  /\ "--dry-run" \in argv
  /\ logFile /= << >>
  /\ logFile \in PriorLogs
  /\ appended = << >>

----------------------------------------------------------------------------
(* the log round trip: reports of arbitrary checks are appended to the log  *)
(* by logger.append and the log is read back by parseHealthCheckLog         *)

MaxResults == 2

MaxAppends == 2

\* result objects shaped like those of checkEnvFile and run in checks/config.js,
\* and one without a status
AnyResults ==
  { [ status |-> "pass", message |-> << "checked" >>,
      details |-> << [status |-> "pass", message |-> << "Found", " ", "3", "/", "3" >>] >>,
      fix |-> << >> ],
    [ status |-> "warning", message |-> << "checked" >>,
      details |-> << [status |-> "warning", message |-> << "Optional", " ", "not", " ", "set" >>] >>,
      fix |-> << >> ],
    [ status |-> "fail", message |-> << "checked" >>,
      details |-> << [status |-> "pass", message |-> << "Found", " ", "2", "/", "3" >>],
                     [status |-> "fail", message |-> << "Missing", ":", " ", "KEY" >>] >>,
      error |-> << "Missing", " ", "required", " ", "variable", ":", " ", "KEY" >>,
      fix |-> << << "Add", " ", "KEY", "=", "your_value" >> >> ],
    [ status |-> "error", message |-> << "Failed", " ", "to", " ", "read" >>,
      error |-> << "EACCES" >> ],
    [ message |-> << "checked" >> ] }

AnyBehaviours == { [kind |-> "returns", value |-> v] : v \in AnyResults } \cup Throws

\* the time between two runs
RunIntervals == {0, 1500}

InitLog ==
  /\ pc = "collect"
  /\ argv = {}
  /\ env = [ HEALTH_CHECK_ALERT_ONLY |-> NoValue, HEALTH_CHECK_NOTION_DB_ID |-> NoValue ]
  /\ now = 0
  /\ idx = 1
  /\ startTime = 0
  /\ invoked = << >>
  /\ settled = << >>
  /\ results = << >>
  /\ console = << >>
  /\ summary = NoValue
  /\ reportText = << >>
  /\ logFile = << >>
  /\ sendCalls = 0
  /\ sendResults = << >>
  /\ attempts = << >>
  /\ exitCode = NoValue
  /\ appended = << >>
  /\ entries = << >>
  /\ fileState = "present"
  /\ recent = << >>
  /\ fixture = NoValue
  /\ verdict = NoValue

\* runCheck on the next check, with any check function
CollectCheck ==
  /\ pc = "collect"
  /\ Len(results) < MaxResults
  /\ LET checkName == fullChecks[Len(results) + 1]
     IN  \E behaviour \in AnyBehaviours, d \in Durations(checkName) :
           /\ results' = Append(results, runCheck(checkName, behaviour, now, now + d))
           /\ now' = now + d
           /\ settled' = Append(settled, behaviour)
  /\ UNCHANGED <<pc, argv, env, idx, startTime, invoked, console, summary,
                 reportText, logFile, sendCalls, sendResults, attempts, exitCode, appended,
                 entries>>
  /\ UNCHANGED harnessVars

\* generateSummary, formatResults and logger.append on the results collected
AppendReport ==
  /\ pc = "collect"
  /\ summary' = generateSummary(results, now)
  /\ reportText' = formatResults(results, summary', now)
  /\ logFile' = append(logFile, reportText', now)
  /\ appended' = Append(appended, [content |-> reportText', time |-> now])
  /\ pc' = "appended"
  /\ UNCHANGED <<argv, env, now, idx, startTime, invoked, settled, results, console,
                 sendCalls, sendResults, attempts, exitCode, entries>>
  /\ UNCHANGED harnessVars

\* analyze-trends reads the log
ParseLog ==
  /\ pc = "appended"
  /\ entries' = parseHealthCheckLog(logFile)
  /\ pc' = "parsed"
  /\ UNCHANGED <<argv, env, now, idx, startTime, invoked, settled, results, console,
                 summary, reportText, logFile, sendCalls, sendResults, attempts, exitCode,
                 appended>>
  /\ UNCHANGED harnessVars

\* the next run of health-check.js starts
NextRun ==
  /\ pc = "parsed"
  /\ Len(appended) < MaxAppends
  /\ \E dt \in RunIntervals : now' = now + dt
  /\ results' = << >>
  /\ settled' = << >>
  /\ pc' = "collect"
  /\ UNCHANGED <<argv, env, idx, startTime, invoked, console, summary,
                 reportText, logFile, sendCalls, sendResults, attempts, exitCode, appended,
                 entries>>
  /\ UNCHANGED harnessVars

NextLog ==
  \/ CollectCheck
  \/ AppendReport
  \/ ParseLog
  \/ NextRun

SpecLog == InitLog /\ [][NextLog]_vars

----------------------------------------------------------------------------
(* Properties of the log round trip (SpecLog) *)

\* the raw entry the parser sees for the block appended last
LastRawEntry == rawEntries(logFile)[Len(rawEntries(logFile))]

\* the summary the parser extracts from the block appended last
ExtractedSummary == parseSummary(summaryMatch(LastRawEntry))

\* the checks the parser extracts from the Details of the block appended last
ExtractedChecks ==
  IF detailsMatch(LastRawEntry) = NoMatch THEN << >>
  ELSE parseChecks(split(detailsMatch(LastRawEntry), << "\n" >>))

\* C5: for a log made of k blocks appended by logger.append, each a report of
\* formatResults, parseHealthCheckLog returns k entries, one per block, each
\* with the time of the marker line of its block, in ascending order of time
C5_EntriesRecovered ==
  pc = "parsed" =>
    /\ Len(entries) = Len(appended)
    /\ \A i \in 1 .. Len(entries) : entries[i].timestamp = appended[i].time
    /\ \A i, j \in 1 .. Len(entries) :
         i < j => entries[i].timestamp <= entries[j].timestamp

\* C6: the summary the parser extracts from a report of formatResults has the
\* total, passed, warnings, failed, errors and overallStatus of the summary
\* that was formatted
C6_SummaryRecovered ==
  pc \in {"appended", "parsed"} =>
    /\ summaryMatch(LastRawEntry) /= NoMatch
    /\ ExtractedSummary.total = summary.total
    /\ ExtractedSummary.passed = summary.passed
    /\ ExtractedSummary.warnings = summary.warnings
    /\ ExtractedSummary.failed = summary.failed
    /\ ExtractedSummary.errors = summary.errors
    /\ ExtractedSummary.overallStatus = summary.overallStatus

\* C7: the checks the parser extracts from the Details of a report of
\* formatResults are one per result, in order, with the name and the duration
\* of the result and, for pass, warning, fail and error, its status
C7_ChecksRecovered ==
  pc \in {"appended", "parsed"} =>
    /\ Len(ExtractedChecks) = Len(results)
    /\ \A i \in 1 .. Len(results) :
         /\ ExtractedChecks[i].name = results[i].name
         /\ ExtractedChecks[i].duration = results[i].duration
         /\ results[i].status \in {"pass", "warning", "fail", "error"}
              => ExtractedChecks[i].status = results[i].status

----------------------------------------------------------------------------
(* the logger on one path: append, write and readRecent in any order *)

MaxBlocks == 3

MaxN == 4

\* texts handed to append and write
LogContents == { << "report" >>, << "first", "\n", "second" >> }

InitLogger ==
  /\ pc = "logger"
  /\ argv = {}
  /\ env = [ HEALTH_CHECK_ALERT_ONLY |-> NoValue, HEALTH_CHECK_NOTION_DB_ID |-> NoValue ]
  /\ now = 0
  /\ idx = 1
  /\ startTime = 0
  /\ invoked = << >>
  /\ settled = << >>
  /\ results = << >>
  /\ console = << >>
  /\ summary = NoValue
  /\ reportText = << >>
  /\ logFile = << >>
  /\ sendCalls = 0
  /\ sendResults = << >>
  /\ attempts = << >>
  /\ exitCode = NoValue
  /\ appended = << >>
  /\ entries = << >>
  /\ fileState = "absent"
  /\ recent = << >>
  /\ fixture = NoValue
  /\ verdict = NoValue

\* await logger.append(logPath, content), the idx-th append call; appendFile
\* creates a missing file
LoggerAppend ==
  /\ idx <= MaxBlocks
  /\ idx' = idx + 1
  /\ \E content \in LogContents, dt \in RunIntervals :
       /\ now' = now + dt
       /\ logFile' = append(logFile, content, now')
       /\ appended' = Append(appended, [content |-> content, time |-> now'])
  /\ fileState' = "present"
  /\ recent' = << >>
  /\ UNCHANGED <<pc, argv, env, startTime, invoked, settled, results, console,
                 summary, reportText, sendCalls, sendResults, attempts, exitCode,
                 entries, fixture, verdict>>

\* await logger.write(logPath, content): the blocks appended before are gone
LoggerWrite ==
  /\ appended /= << >>
  /\ \E content \in LogContents : logFile' = write(logFile, content)
  /\ appended' = << >>
  /\ fileState' = "present"
  /\ recent' = << >>
  /\ UNCHANGED <<pc, argv, env, now, idx, startTime, invoked, settled, results,
                 console, summary, reportText, sendCalls, sendResults, attempts,
                 exitCode, entries, fixture, verdict>>

\* await logger.readRecent(logPath, n)
LoggerReadRecent ==
  /\ recent = << >>
  /\ \E n \in 0 .. MaxN, readable \in BOOLEAN :
       recent' = << [ n |-> n, readable |-> readable,
                      chunks |-> readRecent(fileState, logFile, readable, n) ] >>
  /\ UNCHANGED <<pc, argv, env, now, idx, startTime, invoked, settled, results,
                 console, summary, reportText, logFile, sendCalls, sendResults,
                 attempts, exitCode, appended, entries, fileState, fixture, verdict>>

NextLogger ==
  \/ LoggerAppend
  \/ LoggerWrite
  \/ LoggerReadRecent

SpecLogger == InitLogger /\ [][NextLogger]_vars

----------------------------------------------------------------------------
(* Properties of the logger (SpecLogger) *)

RECURSIVE Blocks(_)
\* the blocks of a sequence of append calls, one behind the other
Blocks(calls) ==
  IF calls = << >> THEN << >>
  ELSE Blocks(SubSeq(calls, 1, Len(calls) - 1))
         \o Block(calls[Len(calls)].content, calls[Len(calls)].time)

C13_ReadRecent ==
  recent /= << >> =>
    LET call   == recent[1]
        chunks == splitMarker(logFile)
        c      == Len(chunks)
        m      == IF call.n < c THEN call.n ELSE c
    IN  IF fileState = "absent" \/ ~call.readable
          THEN call.chunks = << >>
          ELSE call.chunks = SubSeq(chunks, c - m + 1, c)

----------------------------------------------------------------------------
(* checks/config.js *)

REQUIRED_ENV_VARS ==
  << "NOTION_API_KEY", "NOTION_DISCUSSION_DATABASE_ID",
     "NOTION_DAILY_REPORT_DATABASE_ID", "TELEGRAM_BOT_TOKEN",
     "TELEGRAM_DISCUSSION_GROUP_ID", "TELEGRAM_DAILY_REPORT_GROUP_ID" >>

OPTIONAL_ENV_VARS == << "TELEGRAM_GENERAL_GROUP_ID", "NOTION_MEETING_DATABASE_ID" >>

\* findLine that looks for `${varName}=` only
findLineEqualsOnly(lines, varName) ==
  LET hits == { k \in 1 .. Len(lines) : StartsWith(lines[k], 1, << varName, "=" >>) }
  IN  IF hits = {} THEN NoMatch
      ELSE lines[CHOOSE h \in hits : \A g \in hits : h <= g]

\* lines.find(l => l.startsWith(`${varName}=`) || l.startsWith(`${varName} `)):
\* the first such line, or NoMatch
findLine(lines, varName) ==
  LET hits == { k \in 1 .. Len(lines) :
                  \/ StartsWith(lines[k], 1, << varName, "=" >>)
                  \/ StartsWith(lines[k], 1, << varName, " " >>) }
  IN  IF hits = {} THEN NoMatch
      ELSE lines[CHOOSE h \in hits : \A g \in hits : h <= g]

\* line.split('=')[1] is undefined, so .trim() on it throws a TypeError
valueThrows(line) == Len(split(line, << "=" >>)) < 2

\* line.split('=')[1].trim() === ''
valueEmpty(line) == trim(split(line, << "=" >>)[2]) = << >>

\* /your_token_here|your_api_key|replace_with/i matches the token
IsPlaceholder(token) == token \in {"your_token_here", "your_api_key", "replace_with"}

\* /secret|password|token|key/i matches the token
IsSecretLike(token) ==
  token \in {"NOTION_API_KEY", "TELEGRAM_BOT_TOKEN", "your_token_here", "your_api_key"}

\* `${list.join(', ')}`
joinNames(names) == join([ k \in 1 .. Len(names) |-> << names[k] >> ], << ",", " " >>)

\* checkEnvFile(envPath) for a file [exists, readable, lines]
checkEnvFile(file) ==
  IF ~file.exists
    THEN [ status |-> "fail", message |-> << ".env", " ", "file", " ", "not", " ", "found" >>,
           details |-> << >>,
           fix |-> << << "Create", " ", ".env", " ", "file" >> >> ]
  ELSE IF \/ ~file.readable
          \/ \E k \in 1 .. Len(REQUIRED_ENV_VARS) :
               /\ findLine(file.lines, REQUIRED_ENV_VARS[k]) /= NoMatch
               /\ valueThrows(findLine(file.lines, REQUIRED_ENV_VARS[k]))
    THEN [ status |-> "error",
           message |-> << "Failed", " ", "to", " ", "read", " ", ".env", " ", "file" >>,
           error |-> << "error.message" >> ]
  ELSE
    LET Absent(line)  == line = NoMatch
        Empty(line)   == line /= NoMatch /\ valueEmpty(line)
        Defined(line) == line /= NoMatch /\ ~valueEmpty(line)
        \* the names of varNames, in order, whose line in the file satisfies Test
        SelectVars(varNames, Test(_)) ==
          LET Keep(v) == Test(findLine(file.lines, v)) IN SelectSeq(varNames, Keep)
        missingVars     == SelectVars(REQUIRED_ENV_VARS, Absent)
        emptyVars       == SelectVars(REQUIRED_ENV_VARS, Empty)
        definedVars     == SelectVars(REQUIRED_ENV_VARS, Defined)
        missingOptional == SelectVars(OPTIONAL_ENV_VARS, Absent)
        content         == join(file.lines, << "\n" >>)
        issues == Flatten([ k \in 1 .. Len(REQUIRED_ENV_VARS) |->
                    LET line == findLine(file.lines, REQUIRED_ENV_VARS[k])
                    IN  IF Absent(line)
                          THEN << << "Missing", " ", "required", " ", "variable", ":", " ",
                                     REQUIRED_ENV_VARS[k] >> >>
                        ELSE IF Empty(line)
                          THEN << << "Empty", " ", "value", " ", "for", ":", " ",
                                     REQUIRED_ENV_VARS[k] >> >>
                        ELSE << >> ])
        fixes  == Flatten([ k \in 1 .. Len(REQUIRED_ENV_VARS) |->
                    LET line == findLine(file.lines, REQUIRED_ENV_VARS[k])
                    IN  IF Absent(line)
                          THEN << << "Add", " ", REQUIRED_ENV_VARS[k], "=", "your_value" >> >>
                        ELSE IF Empty(line)
                          THEN << << "Set", " ", "a", " ", "value", " ", "for", " ",
                                     REQUIRED_ENV_VARS[k] >> >>
                        ELSE << >> ])
        details ==
          << [ status |-> "pass",
               message |-> << "Found", " " >> \o String(Len(definedVars)) \o << "/" >>
                             \o String(Len(REQUIRED_ENV_VARS)) ] >>
          \o (IF Len(definedVars) > 0
                THEN << [ status |-> "pass",
                          message |-> << "Defined", ":", " " >> \o joinNames(definedVars) ] >>
                ELSE << >>)
          \o (IF Len(missingVars) > 0
                THEN << [ status |-> "fail",
                          message |-> << "Missing", ":", " " >> \o joinNames(missingVars) ] >>
                ELSE << >>)
          \o (IF Len(emptyVars) > 0
                THEN << [ status |-> "fail",
                          message |-> << "Empty", " ", "values", ":", " " >>
                                        \o joinNames(emptyVars) ] >>
                ELSE << >>)
          \o (IF Len(missingOptional) > 0
                THEN << [ status |-> "warning",
                          message |-> << "Optional", " ", "not", " ", "set", ":", " " >>
                                        \o joinNames(missingOptional) ] >>
                ELSE << >>)
          \o (IF \E k \in 1 .. Len(content) : IsPlaceholder(content[k])
                THEN << [ status |-> "warning",
                          message |-> << "Found", " ", "placeholder", " ", "value" >> ] >>
                ELSE << >>)
          \o (IF \E k \in 1 .. Len(content) : IsSecretLike(content[k])
                THEN << [ status |-> "warning",
                          message |-> << "Found", " ", "potential", " ", "secret", " ",
                                         "in", " ", "env" >> ] >>
                ELSE << >>)
        status == IF Len(missingVars) > 0 \/ Len(emptyVars) > 0 THEN "fail"
                  ELSE IF Len(missingOptional) > 0 THEN "warning"
                  ELSE "pass"
    IN  [ status |-> status,
          message |-> << "Config", " ", "check", ":", " " >> \o String(Len(definedVars))
                        \o << "/" >> \o String(Len(REQUIRED_ENV_VARS)),
          details |-> details,
          error |-> join(issues, << ";", " " >>),
          fix |-> fixes ]

\* the details and the issue count the loop over the skills adds, for the list
\* of the skills' .env files
skillsDetails(skills) ==
  LET checked == { k \in 1 .. Len(skills) : skills[k].exists }
      issues  == { k \in checked : checkEnvFile(skills[k]).status /= "pass" }
  IN  [ skillsChecked |-> Cardinality(checked),
        skillsWithIssues |-> Cardinality(issues),
        details |->
          Flatten([ k \in 1 .. Len(skills) |->
            IF k \notin checked THEN << >>
            ELSE LET r == checkEnvFile(skills[k])
                 IN  (IF r.status /= "pass"
                        THEN << [status |-> r.status, message |-> r.message] >>
                        ELSE << >>)
                     \o (IF "details" \in DOMAIN r THEN r.details ELSE << >>) ])
          \o (IF Cardinality(checked) > 0
                THEN << [ status |-> "pass",
                          message |-> << "Checked", " ", "skill", " ", ".env", " ", "files" >> ] >>
                     \o (IF Cardinality(issues) > 0
                           THEN << [ status |-> "warning",
                                     message |-> << "skills", " ", "have", " ", "config",
                                                    " ", "issues" >> ] >>
                           ELSE << >>)
                ELSE << >>) ]

keyFiles == << "Root package.json", "Notion skill config", "Telegram skill config" >>

\* run(clawdRoot) of checks/config.js on what it finds under clawdRoot
configRun(fx) ==
  LET mainResult == checkEnvFile(fx.env)
      sk == IF ~fx.skillsReadable
              THEN [ skillsChecked |-> 0, skillsWithIssues |-> 0,
                     details |-> << [ status |-> "warning",
                                      message |-> << "Could", " ", "not", " ", "check",
                                                     " ", "skills" >> ] >> ]
              ELSE skillsDetails(fx.skills)
      files == [ k \in 1 .. Len(keyFiles) |->
                   IF keyFiles[k] \in fx.missingFiles
                     THEN [status |-> "fail", message |-> << keyFiles[k], " ", "missing" >>]
                     ELSE [status |-> "pass", message |-> << keyFiles[k], " ", "exists" >>] ]
      status == IF sk.skillsWithIssues > 0 /\ mainResult.status = "pass"
                  THEN "warning" ELSE mainResult.status
  IN  [ status |-> status,
        message |-> << "Config", " ", "check" >>,
        details |-> (IF "details" \in DOMAIN mainResult THEN mainResult.details ELSE << >>)
                      \o sk.details \o files,
        error |-> IF "error" \in DOMAIN mainResult THEN mainResult.error ELSE << >>,
        fix |-> (IF "fix" \in DOMAIN mainResult THEN mainResult.fix ELSE << >>)
                  \o Flatten([ k \in 1 .. Len(keyFiles) |->
                       IF keyFiles[k] \in fx.missingFiles
                         THEN << << "Restore", " ", "or", " ", "create", " ", keyFiles[k] >> >>
                         ELSE << >> ]) ]

----------------------------------------------------------------------------
(* checks/logs.js *)

\* the category of the first of ERROR_PATTERNS that matches the line, "" when
\* none does, for the lines the logs below are made of
errorCategory(line) ==
  CASE line = "12:00:01 Error: boom"          -> "General Error"
    [] line = "Cannot find module 'x'"       -> "Module Not Found"
    [] line = "12:00:02 started"              -> ""
    [] line = "load skills/skills/a/index.js" -> ""
    [] line = ""                              -> ""

\* ERROR_PATTERNS.some(({ pattern }) => pattern.test(line))
isErrorLine(line) == errorCategory(line) /= ""

\* the message of the one of PATH_PATTERNS that matches the line, NoMatch when
\* none does (no line of the logs below matches both)
pathIssue(line) ==
  IF line = "load skills/skills/a/index.js"
    THEN << "Duplicate", " ", "\"skills\"", " ", "in", " ", "path" >>
    ELSE NoMatch

\* LOG_FILE_PATTERN.test(f)
isLogFileName(file) == file.dated

\* getLatestLogFile(): the index in the directory listing of the file whose
\* date token is the greatest, 0 when readdir throws or no name matches
getLatestLogFile(dir) ==
  IF ~dir.readable THEN 0
  ELSE LET logFiles == { k \in 1 .. Len(dir.files) : isLogFileName(dir.files[k]) }
       IN  IF logFiles = {} THEN 0
           ELSE CHOOSE k \in logFiles :
                  \A j \in logFiles :
                    \/ dir.files[j].time < dir.files[k].time
                    \/ (dir.files[j].time = dir.files[k].time /\ k <= j)

\* the errors array of parseLogFile: the category of every line that matches
errorsOf(lines) ==
  LET cats == [ k \in 1 .. Len(lines) |-> errorCategory(lines[k]) ]
      Hit(c) == c /= ""
  IN  SelectSeq(cats, Hit)

\* the warnings array of parseLogFile
warningsOf(lines) ==
  LET Hit(line) == pathIssue(line) /= NoMatch
      hits == SelectSeq(lines, Hit)
  IN  [ k \in 1 .. Len(hits) |-> pathIssue(hits[k]) ]

\* the keys of errorsByCategory in insertion order: the categories of cats
\* in the order of their first occurrence
firstSeen(cats) ==
  LET present  == { cats[k] : k \in 1 .. Len(cats) }
      First(c) == CHOOSE k \in 1 .. Len(cats) :
                    cats[k] = c /\ \A j \in 1 .. k - 1 : cats[j] /= c
  IN  [ n \in 1 .. Cardinality(present) |->
          CHOOSE c \in present :
            Cardinality({ d \in present : First(d) < First(c) }) = n - 1 ]

\* getLastNLines(logPath, n)
getLastNLines(file, n) == IF file.readable THEN slice(file.lines, 0 - n) ELSE << >>

\* logsStatus that looks at the total only
logsStatusTotalOnly(totalErrors, recentErrorCount) ==
  IF totalErrors > 50 THEN "fail"
  ELSE IF totalErrors > 10 THEN "warning"
  ELSE "pass"

\* let status = 'pass'; if (...) status = 'fail'; else if (...) status = 'warning'
logsStatus(totalErrors, recentErrorCount) ==
  IF totalErrors > 50 \/ recentErrorCount > 20 THEN "fail"
  ELSE IF totalErrors > 10 \/ recentErrorCount > 5 THEN "warning"
  ELSE "pass"

\* run(clawdRoot, options) of checks/logs.js on the log directory
logsRun(fx) ==
  LET latest == getLatestLogFile(fx.dir)
  IN  IF latest = 0
        THEN [ status |-> "warning",
               message |-> << "No", " ", "log", " ", "files", " ", "found" >>,
               details |-> << [ status |-> "warning",
                                message |-> << "Log", " ", "directory", " ", "not", " ",
                                               "found", " ", "or", " ", "empty" >> ] >>,
               fix |-> << << "Ensure", " ", "Clawdbot", " ", "has", " ", "run" >>,
                          << "Check", " ", "log", " ", "directory", " ", "permissions" >> >> ]
      ELSE IF ~fx.dir.files[latest].readable
        THEN [ status |-> "error",
               message |-> << "Failed", " ", "to", " ", "parse", " ", "log", " ", "file" >>,
               details |-> << [ status |-> "error", message |-> << "error.message" >> ] >> ]
      ELSE
        LET file   == fx.dir.files[latest]
            errors == errorsOf(file.lines)
            warnings == warningsOf(file.lines)
            totalErrors == Len(errors)
            Count(c) == Cardinality({ k \in 1 .. Len(errors) : errors[k] = c })
            categories == firstSeen(errors)
            last100Lines == getLastNLines(file, 100)
            recentErrorCount ==
              Cardinality({ k \in 1 .. Len(last100Lines) : isErrorLine(last100Lines[k]) })
        IN  [ status |-> logsStatus(totalErrors, recentErrorCount),
              message |-> << "Log", " ", "analysis", ":", " " >> \o String(totalErrors)
                            \o << " ", "errors", " ", "found", ",", " " >>
                            \o String(recentErrorCount) \o << "%" >>,
              details |->
                << [ status |-> "pass", message |-> << "Analyzing", " ", "log" >> ],
                   [ status |-> "info",
                     message |-> << "Found", " " >> \o String(totalErrors)
                                   \o << " ", "errors", ",", " " >>
                                   \o String(Len(warnings)) \o << " ", "warnings" >> ] >>
                \o Flatten([ k \in 1 .. Len(categories) |->
                     << [ status |-> IF Count(categories[k]) > 10 THEN "fail"
                                     ELSE IF Count(categories[k]) > 3 THEN "warning"
                                     ELSE "pass",
                          message |-> << categories[k], ":", " " >>
                                        \o String(Count(categories[k])) ],
                        [ status |-> "info", message |-> << " ", " ", "Latest" >> ] >> ])
                \o [ k \in 1 .. Len(warnings) |->
                     [ status |-> "warning",
                       message |-> << "Path", " ", "issue", ":", " " >> \o warnings[k] ] ]
                \o (IF recentErrorCount > 20
                      THEN << [ status |-> "fail",
                                message |-> << "High", " ", "error", " ", "rate", ":", " " >>
                                              \o String(recentErrorCount) \o << "%" >> ] >>
                      ELSE << >>),
              fix |-> (IF \E k \in 1 .. Len(categories) : categories[k] = "Module Not Found"
                         THEN << << "Run", " ", "npm", " ", "install" >> >> ELSE << >>)
                      \o [ k \in 1 .. Len(warnings) |->
                           << "Fix", " ", "duplicate", " ", "\"skills\"" >> ] ]

----------------------------------------------------------------------------
(* checks/git.js *)

\* A text (a diff, the content of a committed file) is a sequence of tokens
\* [k, n, up]: k is what the token is made of, n how many characters it has,
\* up whether it has an upper-case letter.  The words the patterns spell are
\* tokens of their own ("bearer", "password", ...); "alnum" is a run of
\* letters and digits, "digits" a run of digits, "dashed" a run of letters,
\* digits, '_' and '-' with at least one '_' or '-', "sp" a run of white
\* space, "q" one quote, "other" anything else that is no white space and no
\* quote.
Tok(k, n, up) == [ k |-> k, n |-> n, up |-> up ]

\* One element of a regular expression: the token kinds it accepts, the least
\* and the greatest (0: no limit) number of characters, whether it may be
\* skipped, and whether it is spelled in lower case and matched without /i.
El(k, min, max, optional, lower) ==
  [ k |-> k, min |-> min, max |-> max, optional |-> optional, lower |-> lower ]

Word(w)      == El({w}, 1, 0, FALSE, FALSE)
Quote        == El({"q"}, 1, 1, TRUE, FALSE)
Spaces       == El({"sp"}, 1, 0, TRUE, FALSE)
ColonOrEqual == El({":", "="}, 1, 1, FALSE, FALSE)
TokenCharsNoDash(min) == El({"alnum", "digits"}, min, 0, FALSE, FALSE)

\* [a-zA-Z0-9_-]{min,}
TokenChars(min) == El({"alnum", "digits", "dashed"}, min, 0, FALSE, FALSE)
NotSpaceOrQuote ==
  El({"alnum", "digits", "dashed", "other", ":", "=", "_", "secret_", "api", "key",
      "password", "token", "bearer"}, 1, 0, FALSE, FALSE)

SECRET_PATTERNS ==
  << [ name |-> "Notion API Token",
       pattern |-> << El({"secret_"}, 1, 0, FALSE, TRUE),
                      El({"alnum", "digits"}, 32, 0, FALSE, FALSE) >> ],
     [ name |-> "Telegram Bot Token",
       pattern |-> << El({"digits"}, 8, 0, FALSE, FALSE), El({":"}, 1, 1, FALSE, FALSE),
                      TokenChars(35) >> ],
     [ name |-> "API Key",
       pattern |-> << Word("api"), El({"_"}, 1, 1, TRUE, FALSE), Word("key"), Quote, Spaces,
                      ColonOrEqual, Spaces, Quote, TokenChars(20) >> ],
     [ name |-> "Password",
       pattern |-> << Word("password"), Quote, Spaces, ColonOrEqual, Spaces, Quote,
                      NotSpaceOrQuote, Quote >> ],
     [ name |-> "Token",
       pattern |-> << Word("token"), Quote, Spaces, ColonOrEqual, Spaces, Quote,
                      TokenChars(20) >> ],
     [ name |-> "Bearer Token",
       pattern |-> << Word("bearer"), El({"sp"}, 1, 0, FALSE, FALSE), TokenChars(20) >> ],
     [ name |-> "Base64 Secret",
       pattern |-> << El({"q"}, 1, 1, FALSE, FALSE),
                      El({"alnum", "digits"}, 40, 0, FALSE, FALSE),
                      El({"="}, 1, 2, TRUE, FALSE), El({"q"}, 1, 1, FALSE, FALSE) >> ] >>

\* the elements of pattern from the j-th on match the tokens of content from
\* the i-th on
RECURSIVE matchAt(_, _, _, _)
matchAt(content, i, pattern, j) ==
  IF j > Len(pattern) THEN TRUE
  ELSE LET e == pattern[j]
           fits == /\ i <= Len(content)
                   /\ content[i].k \in e.k
                   /\ content[i].n >= e.min
                   /\ (e.max = 0 \/ content[i].n <= e.max)
                   /\ (e.lower => ~content[i].up)
       IN  \/ fits /\ matchAt(content, i + 1, pattern, j + 1)
           \/ e.optional /\ matchAt(content, i, pattern, j + 1)

\* content.match(pattern) is not null
match(content, pattern) == \E i \in 1 .. Len(content) : matchAt(content, i, pattern, 1)

\* A path is a sequence of tokens too: directory and file names, "/" and the
\* extensions with their dot.  filePath.includes(part)
includes(filePath, part) ==
  \E i \in 1 .. Len(filePath) - Len(part) + 1 :
    SubSeq(filePath, i, i + Len(part) - 1) = part

safePaths ==
  << << ".env", ".example" >>, << "sample", ".env" >>, << ".env", ".template" >>,
     << "test", "/", "fixtures" >> >>

\* the findings of one file, each with the name of the pattern that matched
\* (the first 30 characters of the match, kept with it, are used nowhere)
checkFileForSecretsAnyPath(content, filePath) ==
  LET hits == SelectSeq(SECRET_PATTERNS, LAMBDA p : match(content, p.pattern))
  IN  [ k \in 1 .. Len(hits) |-> [ type |-> hits[k].name ] ]

checkFileForSecrets(content, filePath) ==
  LET hits == SelectSeq(SECRET_PATTERNS, LAMBDA p : match(content, p.pattern))
  IN  IF \E k \in 1 .. Len(safePaths) : includes(filePath, safePaths[k])
        THEN << >>
        ELSE [ k \in 1 .. Len(hits) |-> [ type |-> hits[k].name ] ]

\* /\.(js|ts|json|md|env|txt|yml|yaml)$/.test(file)
isTextFile(file) ==
  /\ file /= << >>
  /\ file[Len(file)] \in {".js", ".ts", ".json", ".md", ".env", ".txt", ".yml", ".yaml"}

\* [...new Set(files)]: the first occurrence of every file, in order
RECURSIVE unique(_)
unique(files) ==
  IF files = << >> THEN << >>
  ELSE LET front == unique(SubSeq(files, 1, Len(files) - 1))
           last  == files[Len(files)]
       IN  IF \E k \in 1 .. Len(front) : front[k] = last THEN front
           ELSE Append(front, last)

\* The repository the check looks at: gitDir (is there a .git in clawdRoot),
\* git ("ok", or "broken" when every git command fails), the untracked, the
\* changed and the staged files, diff (what `git diff <file>` gives for each
\* of them: ok and the text, or not ok), history (the commits, latest first,
\* each with parent, whether `git diff <hash>^..<hash>` works, and its files
\* with what `git show <hash>:<file>` gives) and branches (the lines of
\* `git branch -vv`).
checkUncommittedForSecrets(fx) ==
  IF fx.git /= "ok" THEN << >>
  ELSE
    LET allChangedFiles == unique(fx.changed \o fx.staged)
    IN  Flatten([ k \in 1 .. Len(allChangedFiles) |->
          LET file == allChangedFiles[k]
          IN  IF isTextFile(file) /\ fx.diff[file].ok
                THEN LET secretFindings == checkFileForSecrets(fx.diff[file].out, file)
                     IN  [ j \in 1 .. Len(secretFindings) |->
                             [ file |-> file, type |-> secretFindings[j].type ] ]
                ELSE << >> ])

\* git log --oneline -5
RecentCommits == 5

checkRecentCommitsForSecrets(fx) ==
  IF fx.git /= "ok" THEN << >>
  ELSE
    LET commits == SubSeq(fx.history, 1,
                          IF Len(fx.history) < RecentCommits THEN Len(fx.history)
                          ELSE RecentCommits)
    IN  Flatten([ c \in 1 .. Len(commits) |->
          IF ~commits[c].parent THEN << >>
          ELSE Flatten([ k \in 1 .. Len(commits[c].files) |->
                 LET f == commits[c].files[k]
                 IN  IF isTextFile(f.path) /\ f.show.ok
                       THEN LET secretFindings == checkFileForSecrets(f.show.out, f.path)
                            IN  [ j \in 1 .. Len(secretFindings) |->
                                    [ commit |-> commits[c].hash, file |-> f.path,
                                      type |-> secretFindings[j].type ] ]
                       ELSE << >> ]) ])

\* the lines of `git status --porcelain`
gitStatus(fx) ==
  [ k \in 1 .. Len(fx.untracked) |-> << "??", " " >> \o fx.untracked[k] ]
  \o LET tracked == unique(fx.staged \o fx.changed)
     IN  [ k \in 1 .. Len(tracked) |-> << "M", " " >> \o tracked[k] ]

\* arr.slice(0, n)
firstN(arr, n) == SubSeq(arr, 1, IF Len(arr) < n THEN Len(arr) ELSE n)

gitRun(fx) ==
  IF ~fx.gitDir
    THEN [ status |-> "warning",
           message |-> << "Not", " ", "a", " ", "git", " ", "repository" >>,
           details |-> << [ status |-> "warning",
                            message |-> << ".git", " ", "directory", " ", "not", " ",
                                           "found" >> ] >>,
           fix |-> << << "Initialize", " ", "git", " ", "repo", ":", " ", "git", " ",
                         "init" >> >> ]
  ELSE
    LET changedFiles == gitStatus(fx)
        envFiles == SelectSeq(changedFiles,
                      LAMBDA f : includes(f, << ".env" >>)
                                 /\ ~includes(f, << ".env", ".example" >>))
        uncommittedSecrets == checkUncommittedForSecrets(fx)
        commitSecrets == checkRecentCommitsForSecrets(fx)
        pushNeeded == IF fx.git /= "ok" THEN << >>
                      ELSE SelectSeq(fx.branches,
                             LAMBDA line : /\ includes(line, << "*" >>)
                                           /\ includes(line, << "[" >>)
                                           /\ ~includes(line, << "[", "behind" >>))
    IN  [ status |-> IF uncommittedSecrets /= << >> \/ commitSecrets /= << >>
                       THEN "fail" ELSE "pass",
          message |-> << "Git", " ", "status", " ", "check", " ", "completed" >>,
          details |->
            << [ status |-> "pass",
                 message |-> << "Git", " ", "repository", " ", "detected" >> ] >>
            \o (IF fx.git /= "ok"
                  THEN << [ status |-> "warning",
                            message |-> << "Could", " ", "not", " ", "check", " ", "git",
                                           " ", "status" >> ] >>
                ELSE IF changedFiles /= << >>
                  THEN << [ status |-> "info",
                            message |-> String(Len(changedFiles))
                                          \o << " ", "uncommitted", " ", "file(s)" >> ] >>
                       \o (IF Len(envFiles) > 0
                             THEN << [ status |-> "warning",
                                       message |-> String(Len(envFiles))
                                                     \o << " ", ".env", " ", "file(s)", " ",
                                                           "in", " ", "changes" >> ] >>
                             ELSE << >>)
                ELSE << [ status |-> "pass",
                          message |-> << "Working", " ", "directory", " ", "clean" >> ] >>)
            \o (IF uncommittedSecrets /= << >>
                  THEN << [ status |-> "fail",
                            message |-> << "Found", " " >>
                                          \o String(Len(uncommittedSecrets))
                                          \o << " ", "potential", " ", "secret(s)", " ",
                                                "in", " ", "uncommitted", " ",
                                                "changes" >> ] >>
                       \o LET shown == firstN(uncommittedSecrets, 5)
                          IN  [ k \in 1 .. Len(shown) |->
                                  [ status |-> "fail",
                                    message |-> << " ", " " >> \o shown[k].file
                                                  \o << ":", " ", shown[k].type, " ",
                                                        "detected" >> ] ]
                  ELSE << >>)
            \o (IF commitSecrets /= << >>
                  THEN << [ status |-> "fail",
                            message |-> << "Found", " " >> \o String(Len(commitSecrets))
                                          \o << " ", "potential", " ", "secret(s)", " ",
                                                "in", " ", "recent", " ", "commits" >> ] >>
                       \o LET shown == firstN(commitSecrets, 3)
                          IN  [ k \in 1 .. Len(shown) |->
                                  [ status |-> "fail",
                                    message |-> << " ", " ", "Commit", " ",
                                                   shown[k].commit, ":", " " >>
                                                  \o shown[k].file
                                                  \o << " ", "contains", " ",
                                                        shown[k].type >> ] ]
                  ELSE << >>)
            \o (IF Len(pushNeeded) > 0
                  THEN << [ status |-> "info",
                            message |-> << "Unpushed", " ", "commits", " ",
                                           "detected" >> ] >>
                  ELSE << >>),
          fix |-> (IF uncommittedSecrets /= << >>
                     THEN << << "Remove", " ", "secrets", " ", "from", " ", "uncommitted",
                                " ", "changes", " ", "before", " ", "committing" >>,
                             << "Use", " ", "environment", " ", "variables", " ", "for",
                                " ", "sensitive", " ", "data" >> >>
                     ELSE << >>)
                  \o (IF commitSecrets /= << >>
                        THEN << << "Remove", " ", "secrets", " ", "from", " ", "git", " ",
                                   "history", " ", "using", " ", "git-filter-repo", " ",
                                   "or", " ", "BFG", " ", "Repo-Cleaner" >>,
                                << "Rotate", " ", "exposed", " ", "secrets", " ",
                                   "immediately" >> >>
                        ELSE << >>) ]

(* checks/dependencies.js *)

\* A manifest (package.json) is [exists, parsable, dependencies,
\* devDependencies, nodeModules, installed]: whether the file is there, whether
\* it can be read and parsed, the names it declares, whether the node_modules
\* directory beside it exists, and the packages that have a directory in it.
criticalDeps == << "dotenv", "@notionhq/client", "node-telegram-bot-api" >>

checkPackageJson(pkg) ==
  IF ~pkg.parsable
    THEN [ status |-> "error",
           details |-> << [ status |-> "error",
                            message |-> << "Failed", " ", "to", " ", "check" >> ] >> ]
  ELSE
    LET declared == SelectSeq(criticalDeps,
                      LAMBDA dep : dep \in pkg.dependencies \/ dep \in pkg.devDependencies)
        missingCritical == SelectSeq(declared,
                             LAMBDA dep : ~(pkg.nodeModules /\ dep \in pkg.installed))
        names(deps) == join([ k \in 1 .. Len(deps) |-> << deps[k] >> ], << ",", " " >>)
    IN  [ status |-> IF Len(missingCritical) > 0 THEN "fail" ELSE "pass",
          details |->
            << [ status |-> "pass",
                 message |-> String(Cardinality(pkg.dependencies))
                               \o << " ", "dependencies", " ", "defined" >> ],
               [ status |-> IF pkg.nodeModules THEN "pass" ELSE "fail",
                 message |-> << "node_modules", " ",
                                IF pkg.nodeModules THEN "exists" ELSE "missing" >> ] >>
            \o (IF Len(declared) > 0
                  THEN << [ status |-> "pass",
                            message |-> << "Critical", " ", "deps", ":", " " >>
                                          \o names(declared) ] >>
                  ELSE << >>)
            \o (IF Len(missingCritical) > 0
                  THEN << [ status |-> "fail",
                            message |-> << "Missing", " ", "critical", " ", "deps", ":",
                                           " " >> \o names(missingCritical) ] >>
                  ELSE << >>),
          fix |-> IF Len(missingCritical) > 0
                    THEN << << "Run:", " ", "npm", " ", "install" >> >> ELSE << >> ]

\* the loop over the skills (lines 97-115), from the k-th skill on; a result
\* without a fix list makes result.fix.map throw, which ends the loop in the
\* catch of line 140
RECURSIVE skillsLoop(_, _, _)
skillsLoop(skills, k, acc) ==
  IF k > Len(skills) THEN acc
  ELSE IF ~skills[k].pkg.exists THEN skillsLoop(skills, k + 1, acc)
  ELSE
    LET result == checkPackageJson(skills[k].pkg)
        line == [ status |-> result.status,
                  message |-> << skills[k].name, "/package.json", ":", " ",
                                 IF result.status = "pass" THEN "OK"
                                 ELSE "Issues found" >> ]
    IN  IF result.status = "pass"
          THEN skillsLoop(skills, k + 1,
                 [ acc EXCEPT !.checked = @ + 1, !.passed = @ + 1,
                              !.details = Append(@, line) ])
        ELSE IF "fix" \in DOMAIN result
          THEN skillsLoop(skills, k + 1,
                 [ acc EXCEPT !.checked = @ + 1, !.failed = @ + 1,
                              !.details = Append(@, line) \o result.details,
                              !.fixes = @ \o [ j \in 1 .. Len(result.fix) |->
                                                 result.fix[j] \o << " ", "(skill:", " ",
                                                                     skills[k].name, ")" >> ] ])
        ELSE [ acc EXCEPT !.checked = @ + 1, !.failed = @ + 1,
                          !.details = Append(@, line) \o result.details,
                          !.thrown = TRUE ]

\* The project is [root, skillsReadable, skills, tracked]: the root manifest,
\* whether the skills directory can be listed, its entries with their
\* manifests, and the number of node_modules files that git tracks.  A result
\* with thrown is the rejection of run, which runCheck reports as 'error'.
dependenciesRun(fx) ==
  LET rootResult == checkPackageJson(fx.root)
      start == [ checked |-> 0, passed |-> 0, failed |-> 0, details |-> << >>,
                 fixes |-> << >>, thrown |-> FALSE ]
      afterRoot ==
        IF ~fx.root.exists THEN start
        ELSE LET d == << [ status |-> "pass",
                           message |-> << "Root", " ", "package.json", " ", "OK" >> ] >>
                      \o rootResult.details
             IN  IF rootResult.status = "pass"
                   THEN [ start EXCEPT !.checked = 1, !.passed = 1, !.details = d ]
                 ELSE IF "fix" \in DOMAIN rootResult
                   THEN [ start EXCEPT !.checked = 1, !.failed = 1, !.details = d,
                                       !.fixes = rootResult.fix ]
                 ELSE [ start EXCEPT !.checked = 1, !.failed = 1, !.details = d,
                                     !.thrown = TRUE ]
      couldNot == [ status |-> "warning",
                    message |-> << "Could", " ", "not", " ", "check", " ", "skills" >> ]
      afterSkills ==
        IF ~fx.skillsReadable
          THEN [ afterRoot EXCEPT !.details = Append(@, couldNot) ]
        ELSE LET looped == skillsLoop(fx.skills, 1, afterRoot)
             IN  IF looped.thrown
                   THEN [ looped EXCEPT !.details = Append(@, couldNot), !.thrown = FALSE ]
                 ELSE IF fx.tracked > 0
                   THEN [ looped EXCEPT
                            !.details = Append(@,
                              [ status |-> "warning",
                                message |-> << "node_modules", " ", "files", " ", "tracked",
                                               " ", "in", " ", "git", ":", " " >>
                                              \o String(fx.tracked) ]),
                            !.fixes = Append(@, << "Add", " ", "node_modules/", " ", "to",
                                                   " ", ".gitignore" >>) ]
                 ELSE looped
  IN  IF afterRoot.thrown
        THEN [ status |-> "error", thrown |-> TRUE,
               error |-> << "result.fix", " ", "is", " ", "not", " ", "iterable" >> ]
      ELSE [ status |-> IF afterSkills.failed > 0 THEN "fail"
                        ELSE IF afterSkills.checked = 0 THEN "warning" ELSE "pass",
             message |-> << "Dependencies", ":", " " >> \o String(afterSkills.passed)
                           \o << "/" >> \o String(afterSkills.checked)
                           \o << " ", "package.json", " ", "checks", " ", "passed" >>,
             details |-> afterSkills.details,
             fix |-> afterSkills.fixes ]

(* checks/syntax.js *)

CRITICAL_FILES ==
  << "scripts/notion-heartbeat.js",
     "skills/notion-persistence-universal/scripts/save-content.js",
     "skills/telegram-notification/scripts/notify-group.js",
     "skills/event-coordinator/scripts/coordinate.js" >>

\* additionalFiles.slice(0, 20)
AdditionalLimit == 20

\* The executor of the promise calls spawn, which syntax.js neither declares
\* nor imports: the call throws a ReferenceError before any process is
\* started, whatever the file holds, and the promise is rejected.
checkFileSyntax(file) ==
  [ thrown |-> TRUE, status |-> "error",
    message |-> << "spawn", " ", "is", " ", "not", " ", "defined" >> ]

\* the loop over CRITICAL_FILES (lines 86-114) from the k-th file on; a
\* rejected check leaves the loop and run
RECURSIVE criticalLoop(_, _, _)
criticalLoop(fx, k, acc) ==
  IF k > Len(CRITICAL_FILES) THEN acc
  ELSE IF ~fx.critical[k].exists
    THEN criticalLoop(fx, k + 1,
           [ acc EXCEPT !.details = Append(@,
               [ status |-> "warning",
                 message |-> << CRITICAL_FILES[k], " ", "not", " ", "found" >> ]) ])
  ELSE
    LET result == checkFileSyntax(fx.critical[k])
    IN  IF result.thrown
          THEN [ acc EXCEPT !.checked = @ + 1, !.thrown = TRUE ]
        ELSE IF result.status = "pass"
          THEN criticalLoop(fx, k + 1,
                 [ acc EXCEPT !.checked = @ + 1, !.passed = @ + 1,
                     !.details = Append(@, [ status |-> "pass",
                                             message |-> << CRITICAL_FILES[k], ":", " ",
                                                            "OK" >> ]) ])
        ELSE criticalLoop(fx, k + 1,
               [ acc EXCEPT !.checked = @ + 1, !.failed = @ + 1,
                   !.details = Append(@, [ status |-> "fail", message |-> result.message ]),
                   !.errors = Append(@, result.message),
                   !.fixes = Append(@, << "Fix", " ", "syntax", " ", "error", " ", "in",
                                          " ", CRITICAL_FILES[k] >>) ])

\* the loop over the additional files (lines 129-139); a rejected check ends
\* it in the catch of line 140, before checked is counted
RECURSIVE additionalLoop(_, _, _)
additionalLoop(files, k, acc) ==
  IF k > Len(files) THEN acc
  ELSE
    LET result == checkFileSyntax(files[k])
    IN  IF result.thrown THEN acc
        ELSE IF result.status = "pass"
          THEN additionalLoop(files, k + 1,
                 [ acc EXCEPT !.checked = @ + 1, !.passed = @ + 1 ])
        ELSE additionalLoop(files, k + 1,
               [ acc EXCEPT !.checked = @ + 1, !.failed = @ + 1,
                   !.details = Append(@, [ status |-> "fail", message |-> result.message ]),
                   !.errors = Append(@, result.message) ])

\* The project is [critical, glob, allJsFiles]: for each of CRITICAL_FILES
\* whether it exists and parses, whether the glob package can be used, and
\* the files skills/*/scripts/*.js with their path and whether they parse.
syntaxRun(fx) ==
  LET start == [ checked |-> 0, passed |-> 0, failed |-> 0, details |-> << >>,
                 errors |-> << >>, fixes |-> << >>, thrown |-> FALSE ]
      afterCritical == criticalLoop(fx, 1, start)
      additionalFiles ==
        SelectSeq(fx.allJsFiles,
                  LAMBDA file : ~\E k \in 1 .. Len(CRITICAL_FILES) :
                                   file.path = CRITICAL_FILES[k])
      final == IF ~fx.glob THEN afterCritical
               ELSE additionalLoop(firstN(additionalFiles, AdditionalLimit), 1,
                                   afterCritical)
  IN  IF afterCritical.thrown
        THEN [ status |-> "error", thrown |-> TRUE,
               error |-> << "spawn", " ", "is", " ", "not", " ", "defined" >> ]
      ELSE [ status |-> IF final.failed > 0 THEN "fail"
                        ELSE IF final.checked = 0 THEN "warning" ELSE "pass",
             thrown |-> FALSE,
             message |-> << "Syntax", " ", "check", ":", " " >> \o String(final.passed)
                           \o << "/" >> \o String(final.checked)
                           \o << " ", "files", " ", "passed" >>,
             details |-> final.details,
             error |-> join(final.errors, << ";", " " >>),
             fix |-> final.fixes ]

(* the check modules, each run on what it can find *)

\* how the line of a key can look in a .env file
LineShapes == {"absent", "set", "placeholder", "empty", "blank", "spaced", "noEquals"}

envLine(key, shape) ==
  CASE shape = "absent"      -> << >>
    [] shape = "set"         -> << << key, "=", "abc" >> >>
    [] shape = "placeholder" -> << << key, "=", "your_token_here" >> >>
    [] shape = "empty"       -> << << key, "=" >> >>
    [] shape = "blank"       -> << << key, "=", " " >> >>
    [] shape = "spaced"      -> << << key, " ", "=", " ", "abc" >> >>
    [] shape = "noEquals"    -> << << key, " ", "abc" >> >>

\* .env files: the first required key in any shape, the next two absent, set
\* or empty, the last three set, the optional ones absent or set
EnvFiles ==
  { [ exists |-> TRUE, readable |-> TRUE,
      lines |-> << << "#", " ", "settings" >> >> \o envLine(REQUIRED_ENV_VARS[1], first)
                  \o Flatten([ k \in 1 .. 2 |-> envLine(REQUIRED_ENV_VARS[k + 1], req[k]) ])
                  \o Flatten([ k \in 1 .. 3 |-> envLine(REQUIRED_ENV_VARS[k + 3], "set") ])
                  \o Flatten([ k \in 1 .. 2 |-> envLine(OPTIONAL_ENV_VARS[k], opt[k]) ]) ] :
      first \in LineShapes, req \in [1 .. 2 -> {"absent", "set", "empty"}],
      opt \in [1 .. 2 -> {"absent", "set"}] }
  \cup { [ exists |-> FALSE, readable |-> FALSE, lines |-> << >> ],
         [ exists |-> TRUE, readable |-> FALSE, lines |-> << >> ] }

\* a .env file with every key set, and one with a required key missing
GoodEnv ==
  [ exists |-> TRUE, readable |-> TRUE,
    lines |-> Flatten([ k \in 1 .. 6 |-> envLine(REQUIRED_ENV_VARS[k], "set") ])
                \o Flatten([ k \in 1 .. 2 |-> envLine(OPTIONAL_ENV_VARS[k], "set") ]) ]

BadEnv ==
  [ exists |-> TRUE, readable |-> TRUE,
    lines |-> Flatten([ k \in 1 .. 5 |-> envLine(REQUIRED_ENV_VARS[k], "set") ]) ]

NoEnv == [ exists |-> FALSE, readable |-> FALSE, lines |-> << >> ]

ConfigFixtures ==
  { [ check |-> "config", env |-> e, skillsReadable |-> sk.readable, skills |-> sk.envs,
      missingFiles |-> mf ] :
      e \in EnvFiles,
      sk \in { [readable |-> FALSE, envs |-> << >>], [readable |-> TRUE, envs |-> << >>],
               [readable |-> TRUE, envs |-> << NoEnv >>],
               [readable |-> TRUE, envs |-> << GoodEnv >>],
               [readable |-> TRUE, envs |-> << GoodEnv, BadEnv >>] },
      mf \in { {}, {"Root package.json"} } }

\* n lines, all equal
Repeat(line, n) == [ k \in 1 .. n |-> line ]

\* content.split('\n') of readable log files: error lines, then other lines,
\* then error lines again, with or without a newline at the end of the file
LogFileLines ==
  { Repeat("12:00:01 Error: boom", a) \o mid \o Repeat("12:00:02 started", b)
      \o Repeat("12:00:01 Error: boom", c) \o last :
      a \in {0, 11, 30, 51}, b \in {0, 80, 100}, c \in {0, 5, 6, 20, 21},
      mid \in { << >>, << "Cannot find module 'x'", "load skills/skills/a/index.js" >> },
      last \in { << >>, << "" >> } }

CleanLog == [ dated |-> TRUE, time |-> 20260102, readable |-> TRUE,
              lines |-> << "12:00:02 started", "" >> ]

LogDirs ==
  { [ readable |-> TRUE,
      files |-> << [ dated |-> TRUE, time |-> 20260103, readable |-> TRUE, lines |-> l ] >> ] :
      l \in LogFileLines }
  \cup { [ readable |-> TRUE,
           files |-> << [ dated |-> TRUE, time |-> 20260101, readable |-> TRUE, lines |-> l ],
                        CleanLog >> ] :
           l \in { Repeat("12:00:01 Error: boom", 51) } }
  \cup { [ readable |-> FALSE, files |-> << >> ],
         [ readable |-> TRUE, files |-> << >> ],
         [ readable |-> TRUE,
           files |-> << [ dated |-> FALSE, time |-> 0, readable |-> TRUE,
                          lines |-> Repeat("12:00:01 Error: boom", 51) ] >> ],
         [ readable |-> TRUE,
           files |-> << [ dated |-> TRUE, time |-> 20260103, readable |-> FALSE,
                          lines |-> << >> ] >> ] }

LogsFixtures == { [ check |-> "logs", dir |-> d ] : d \in LogDirs }

\* files of the repository
AppJs       == << "src", "/", "app", ".js" >>
EnvFile     == << ".env" >>
FixtureJson == << "test", "/", "fixtures", "/", "data", ".json" >>
LogoPng     == << "assets", "/", "logo", ".png" >>
NotesTxt    == << "notes", ".txt" >>
SkillEnv    == << "skills", "/", "mail", "/", ".env" >>

\* texts with nothing a secret pattern matches: plain code, a bearer token of
\* 19 characters, SECRET_ in upper case, a quoted run followed by "==="
CleanDiff == << Tok("other", 1, FALSE), Tok("alnum", 5, FALSE), Tok("sp", 1, FALSE),
                Tok("alnum", 12, TRUE), Tok("sp", 1, FALSE), Tok("=", 1, FALSE),
                Tok("sp", 1, FALSE), Tok("digits", 2, FALSE) >>
CleanTexts ==
  { << >>,
    CleanDiff,
    << Tok("bearer", 6, TRUE), Tok("sp", 1, FALSE), Tok("dashed", 19, TRUE) >>,
    << Tok("secret_", 7, TRUE), Tok("alnum", 32, TRUE) >>,
    << Tok("q", 1, FALSE), Tok("alnum", 40, TRUE), Tok("=", 3, FALSE),
       Tok("q", 1, FALSE) >> }

\* texts with a secret in them, one for each of SECRET_PATTERNS
BearerDiff == << Tok("other", 1, FALSE), Tok("alnum", 13, TRUE), Tok(":", 1, FALSE),
                 Tok("sp", 1, FALSE), Tok("bearer", 6, TRUE), Tok("sp", 1, FALSE),
                 Tok("dashed", 20, TRUE) >>
SecretTexts ==
  { << Tok("other", 1, FALSE), Tok("secret_", 7, FALSE), Tok("alnum", 32, TRUE) >>,
    << Tok("digits", 9, FALSE), Tok(":", 1, FALSE), Tok("dashed", 35, TRUE) >>,
    << Tok("api", 3, TRUE), Tok("_", 1, FALSE), Tok("key", 3, TRUE), Tok("=", 1, FALSE),
       Tok("q", 1, FALSE), Tok("alnum", 20, TRUE), Tok("q", 1, FALSE) >>,
    << Tok("password", 8, FALSE), Tok(":", 1, FALSE), Tok("sp", 1, FALSE),
       Tok("alnum", 7, FALSE) >>,
    << Tok("token", 5, FALSE), Tok("q", 1, FALSE), Tok(":", 1, FALSE), Tok("sp", 2, FALSE),
       Tok("q", 1, FALSE), Tok("dashed", 24, TRUE), Tok("q", 1, FALSE) >>,
    BearerDiff,
    << Tok("other", 1, FALSE), Tok("q", 1, FALSE), Tok("alnum", 40, TRUE),
       Tok("=", 2, FALSE), Tok("q", 1, FALSE) >> }

\* what a git command gives: its output, or a failure
Ok(out) == [ ok |-> TRUE, out |-> out ]
Failed  == [ ok |-> FALSE, out |-> << >> ]

\* one file of the working tree: untouched, changed, staged, or staged and
\* changed again; `git diff <file>` shows the changes that are not staged
WorkingTrees ==
  { [ changed |-> << >>, staged |-> << >>, diff |-> << >> ] }
  \cup { [ changed |-> << >>, staged |-> << f >>, diff |-> [ g \in {f} |-> Ok(<< >>) ] ] :
           f \in {AppJs, EnvFile, FixtureJson, LogoPng} }
  \cup { [ changed |-> << f >>, staged |-> IF both THEN << f >> ELSE << >>,
           diff |-> [ g \in {f} |-> d ] ] :
           f \in {AppJs, EnvFile, FixtureJson, LogoPng},
           both \in BOOLEAN,
           d \in {Failed} \cup { Ok(t) : t \in CleanTexts \cup SecretTexts } }

CleanCommit ==
  [ hash |-> "1a2b3c4", parent |-> TRUE,
    files |-> << [ path |-> AppJs, show |-> Ok(CleanDiff) ] >> ]

\* the history: some clean commits, then one commit that is the first of the
\* repository or not, with one file that is still there or not
Histories ==
  { << >> }
  \cup { Repeat(CleanCommit, n) \o << [ hash |-> "9f8e7d6", parent |-> c.parent,
                                        files |-> << [ path |-> c.path,
                                                       show |-> c.show ] >> ] >> :
           n \in {0, RecentCommits - 1, RecentCommits},
           c \in { [ parent |-> TRUE, path |-> AppJs, show |-> Ok(CleanDiff) ],
                   [ parent |-> TRUE, path |-> AppJs, show |-> Ok(BearerDiff) ],
                   [ parent |-> TRUE, path |-> AppJs, show |-> Failed ],
                   [ parent |-> FALSE, path |-> AppJs, show |-> Ok(BearerDiff) ],
                   [ parent |-> TRUE, path |-> FixtureJson, show |-> Ok(BearerDiff) ],
                   [ parent |-> TRUE, path |-> LogoPng, show |-> Ok(BearerDiff) ] } }

BranchLines ==
  { << >>,
    << << "*", " ", "main", " ", "1a2b3c4", " ", "[", "origin/main", ":", " ", "ahead",
          " ", "1", "]", " ", "commit" >> >> }

GitFixtures ==
  { [ check |-> "git", gitDir |-> TRUE, git |-> "ok", untracked |-> u,
      changed |-> w.changed, staged |-> w.staged, diff |-> w.diff,
      history |-> h, branches |-> << >> ] :
      u \in { << >>, << NotesTxt >>, << SkillEnv >> }, w \in WorkingTrees, h \in Histories }
  \cup
  { [ check |-> "git", gitDir |-> d, git |-> g, untracked |-> << >>,
      changed |-> << AppJs >>, staged |-> << >>, diff |-> [ f \in {AppJs} |-> Ok(t) ],
      history |-> << >>, branches |-> b ] :
      d \in BOOLEAN, g \in {"ok", "broken"}, t \in {CleanDiff, BearerDiff},
      b \in BranchLines }

\* manifests: none, one that cannot be parsed, and those that declare some of
\* express, dotenv and @notionhq/client, with and without node_modules
NoManifest ==
  [ exists |-> FALSE, parsable |-> FALSE, dependencies |-> {}, devDependencies |-> {},
    nodeModules |-> FALSE, installed |-> {} ]
Manifests ==
  { NoManifest }
  \cup { [ NoManifest EXCEPT !.exists = TRUE, !.nodeModules = n ] : n \in BOOLEAN }
  \cup { [ exists |-> TRUE, parsable |-> TRUE, dependencies |-> d, devDependencies |-> v,
           nodeModules |-> i /= {"none"},
           installed |-> IF i = {"none"} THEN {} ELSE i ] :
           d \in { {}, {"express"}, {"express", "dotenv"} },
           v \in { {}, {"@notionhq/client"} },
           i \in { {"none"} } \cup SUBSET {"dotenv", "@notionhq/client"} }
SkillManifests ==
  { m \in Manifests : m.devDependencies = {} /\ "@notionhq/client" \notin m.installed }
DependenciesFixtures ==
  { [ check |-> "dependencies", root |-> r, skillsReadable |-> TRUE, skills |-> s,
      tracked |-> t ] :
      r \in Manifests,
      s \in { << >> }
            \cup { << [ name |-> "mail", pkg |-> m ] >> : m \in SkillManifests }
            \cup { << [ name |-> "mail", pkg |-> m ], [ name |-> "notes", pkg |-> n ] >> :
                     m \in SkillManifests, n \in SkillManifests },
      t \in {0, 2} }
  \cup
  { [ check |-> "dependencies", root |-> r, skillsReadable |-> FALSE, skills |-> << >>,
      tracked |-> 0 ] : r \in Manifests }

\* projects: each critical file absent, well-formed or broken; glob usable or
\* not; beside the critical files under skills/, 0, 20 or 21 more scripts,
\* the last of them well-formed or broken
SyntaxFixtures ==
  { [ check |-> "syntax",
      critical |-> [ k \in 1 .. Len(CRITICAL_FILES) |->
                       [ path |-> CRITICAL_FILES[k], exists |-> c[k] /= "absent",
                         parses |-> c[k] = "good" ] ],
      glob |-> g,
      allJsFiles |->
        SelectSeq([ k \in 1 .. 2 |-> [ path |-> CRITICAL_FILES[k + 1],
                                       exists |-> c[k + 1] /= "absent",
                                       parses |-> c[k + 1] = "good" ] ],
                  LAMBDA f : f.exists)
        \o (IF n = 0 THEN << >>
            ELSE Repeat([ path |-> "skills/mail/scripts/send.js", exists |-> TRUE,
                          parses |-> TRUE ], n - 1)
                 \o << [ path |-> "skills/mail/scripts/last.js", exists |-> TRUE,
                         parses |-> lastParses ] >>) ] :
      c \in [ 1 .. Len(CRITICAL_FILES) -> {"absent", "good", "broken"} ],
      g \in BOOLEAN,
      n \in {0, AdditionalLimit, AdditionalLimit + 1},
      lastParses \in BOOLEAN }

CheckFixtures ==
  ConfigFixtures \cup LogsFixtures \cup GitFixtures \cup DependenciesFixtures
    \cup SyntaxFixtures

InitChecks ==
  /\ pc = "check"
  /\ argv = {}
  /\ env = [ HEALTH_CHECK_ALERT_ONLY |-> NoValue, HEALTH_CHECK_NOTION_DB_ID |-> NoValue ]
  /\ now = 0
  /\ idx = 1
  /\ startTime = 0
  /\ invoked = << >>
  /\ settled = << >>
  /\ results = << >>
  /\ console = << >>
  /\ summary = NoValue
  /\ reportText = << >>
  /\ logFile = << >>
  /\ sendCalls = 0
  /\ sendResults = << >>
  /\ attempts = << >>
  /\ exitCode = NoValue
  /\ appended = << >>
  /\ entries = << >>
  /\ fileState = "present"
  /\ recent = << >>
  /\ fixture \in CheckFixtures
  /\ verdict = NoValue

\* checks.config.run(CONFIG.clawdRoot)
RunConfig ==
  /\ pc = "check"
  /\ fixture.check = "config"
  /\ verdict' = configRun(fixture)
  /\ pc' = "checked"
  /\ UNCHANGED <<argv, env, now, idx, startTime, invoked, settled, results, console,
                 summary, reportText, logFile, sendCalls, sendResults, attempts,
                 exitCode, appended, entries, fileState, recent, fixture>>

\* checks.logs.run(CONFIG.clawdRoot, options)
RunLogs ==
  /\ pc = "check"
  /\ fixture.check = "logs"
  /\ verdict' = logsRun(fixture)
  /\ pc' = "checked"
  /\ UNCHANGED <<argv, env, now, idx, startTime, invoked, settled, results, console,
                 summary, reportText, logFile, sendCalls, sendResults, attempts,
                 exitCode, appended, entries, fileState, recent, fixture>>

\* checks.git.run(CONFIG.clawdRoot, options)
RunGit ==
  /\ pc = "check"
  /\ fixture.check = "git"
  /\ verdict' = gitRun(fixture)
  /\ pc' = "checked"
  /\ UNCHANGED <<argv, env, now, idx, startTime, invoked, settled, results, console,
                 summary, reportText, logFile, sendCalls, sendResults, attempts,
                 exitCode, appended, entries, fileState, recent, fixture>>

\* checks.dependencies.run(CONFIG.clawdRoot)
RunDependencies ==
  /\ pc = "check"
  /\ fixture.check = "dependencies"
  /\ verdict' = dependenciesRun(fixture)
  /\ pc' = "checked"
  /\ UNCHANGED <<argv, env, now, idx, startTime, invoked, settled, results, console,
                 summary, reportText, logFile, sendCalls, sendResults, attempts,
                 exitCode, appended, entries, fileState, recent, fixture>>

\* checks.syntax.run(CONFIG.clawdRoot)
RunSyntax ==
  /\ pc = "check"
  /\ fixture.check = "syntax"
  /\ verdict' = syntaxRun(fixture)
  /\ pc' = "checked"
  /\ UNCHANGED <<argv, env, now, idx, startTime, invoked, settled, results, console,
                 summary, reportText, logFile, sendCalls, sendResults, attempts,
                 exitCode, appended, entries, fileState, recent, fixture>>

NextChecks ==
  \/ RunConfig
  \/ RunLogs
  \/ RunGit
  \/ RunDependencies
  \/ RunSyntax

SpecChecks == InitChecks /\ [][NextChecks]_vars

----------------------------------------------------------------------------
(* Properties of the check modules (SpecChecks) *)

\* the line of the key in the main .env file, NoMatch when it has none
MainLine(key) ==
  LET lines == fixture.env.lines
      hits  == { k \in 1 .. Len(lines) : lines[k] /= << >> /\ lines[k][1] = key }
  IN  IF hits = {} THEN NoMatch ELSE lines[CHOOSE h \in hits : \A g \in hits : h <= g]

\* the config check has run on a main .env file it could read
ConfigRan == pc = "checked" /\ fixture.check = "config"

\* the text the line gives the key: what follows its first '=', blanks dropped
\* at both ends (empty when the line has no '=')
ValueOf(line) ==
  LET eq == IndexOf(line, << "=" >>, 1)
  IN  IF eq = 0 THEN << >> ELSE trim(SubSeq(line, eq + 1, Len(line)))

\* the key is absent from the main .env file
KeyAbsent(key) == MainLine(key) = NoMatch

\* the key is present with a non-empty value
KeySet(key) == ~KeyAbsent(key) /\ ValueOf(MainLine(key)) /= << >>

\* the key is present with an empty value
KeyEmpty(key) ==
  /\ ~KeyAbsent(key)
  /\ IndexOf(MainLine(key), << "=" >>, 1) > 0
  /\ ValueOf(MainLine(key)) = << >>

AllRequiredSet == \A k \in 1 .. Len(REQUIRED_ENV_VARS) : KeySet(REQUIRED_ENV_VARS[k])

\* C14, as claimed: when every required key is present in the main .env file
\* with a non-empty value, the status of the config check is 'pass'
C14_ConfigPassRequiredOnly ==
  (ConfigRan /\ fixture.env.readable /\ AllRequiredSet) => verdict.status = "pass"

\* C14, amended: when every required key is present in the main .env file
\* with a non-empty value, every optional key is present, and no skill has a
\* .env file whose own check is not 'pass', the status is 'pass'; with every
\* required key set the status is never 'fail'
C14_ConfigPass ==
  (ConfigRan /\ fixture.env.readable /\ AllRequiredSet) =>
    /\ verdict.status \in {"pass", "warning"}
    /\ ( /\ \A k \in 1 .. Len(OPTIONAL_ENV_VARS) : ~KeyAbsent(OPTIONAL_ENV_VARS[k])
         /\ \/ ~fixture.skillsReadable
            \/ \A k \in 1 .. Len(fixture.skills) :
                 fixture.skills[k].exists => checkEnvFile(fixture.skills[k]).status = "pass" )
       => verdict.status = "pass"

\* the check has passed on a file that writes its first key as KEY = value,
\* next to a skill whose .env file is complete
C14_Witness ==
  /\ ConfigRan
  /\ AllRequiredSet
  /\ StartsWith(MainLine(REQUIRED_ENV_VARS[1]), 1, << REQUIRED_ENV_VARS[1], " ", "=" >>)
  /\ fixture.skills = << GoodEnv >>
  /\ verdict.status = "pass"

\* C15: on a main .env file that can be read: if a required key is absent the
\* status is 'fail' and the 'Missing:' detail names every absent required key;
\* if a required key is present with an empty value the status is 'fail'; if
\* no required key is absent or empty the status is not 'fail', whatever the
\* optional keys and the placeholder values
C15_ConfigFail ==
  (ConfigRan /\ fixture.env.readable) =>
    LET absent == { k \in 1 .. Len(REQUIRED_ENV_VARS) : KeyAbsent(REQUIRED_ENV_VARS[k]) }
        empty  == { k \in 1 .. Len(REQUIRED_ENV_VARS) : KeyEmpty(REQUIRED_ENV_VARS[k]) }
    IN  /\ absent /= {} =>
             /\ verdict.status = "fail"
             /\ \E d \in 1 .. Len(verdict.details) :
                  /\ StartsWith(verdict.details[d].message, 1, << "Missing", ":" >>)
                  /\ \A k \in absent :
                       Contains(verdict.details[d].message, << REQUIRED_ENV_VARS[k] >>)
        /\ empty /= {} => verdict.status = "fail"
        /\ (absent = {} /\ empty = {}) => verdict.status /= "fail"

LogsRan == pc = "checked" /\ fixture.check = "logs"

\* the dated log files of the directory
DatedLogs ==
  IF fixture.dir.readable
    THEN { k \in 1 .. Len(fixture.dir.files) : fixture.dir.files[k].dated }
    ELSE {}

\* the lines of the dated log file with the latest date
LatestLines ==
  fixture.dir.files[CHOOSE k \in DatedLogs :
                      \A j \in DatedLogs :
                        fixture.dir.files[j].time <= fixture.dir.files[k].time].lines

\* T: the number of lines of the log that match an error pattern
TotalMatches == Cardinality({ k \in 1 .. Len(LatestLines) : isErrorLine(LatestLines[k]) })

\* R: the number of matching lines among the last 100 lines of the log
RecentMatches ==
  Cardinality({ k \in 1 .. Len(LatestLines) :
                  k > Len(LatestLines) - 100 /\ isErrorLine(LatestLines[k]) })

\* C16: for a log that was found and read, the status is 'pass' when T = 0
\* and 'fail' when T > 50 or R > 20; when no dated log file is found the
\* status is 'warning'
C16_LogsVerdict ==
  LogsRan =>
    IF DatedLogs = {} THEN verdict.status = "warning"
    ELSE \A k \in DatedLogs : fixture.dir.files[k].readable =>
           /\ TotalMatches = 0 => verdict.status = "pass"
           /\ (TotalMatches > 50 \/ RecentMatches > 20) => verdict.status = "fail"

\* a log with 21 matching lines, all among its last 100, has been judged 'fail'
C16_Witness ==
  /\ LogsRan
  /\ DatedLogs /= {}
  /\ TotalMatches = 21
  /\ RecentMatches = 21
  /\ verdict.status = "fail"

GitRan == pc = "checked" /\ fixture.check = "git"

\* the files of the fixtures that are text-like and outside the safe example paths
ScannedFiles == {AppJs, EnvFile, NotesTxt, SkillEnv}

\* the diff of a changed or staged file that is scanned has a secret in it
SecretInDiff ==
  \E k \in 1 .. Len(fixture.changed \o fixture.staged) :
    LET f == (fixture.changed \o fixture.staged)[k]
    IN  /\ f \in ScannedFiles
        /\ fixture.diff[f].ok
        /\ fixture.diff[f].out \in SecretTexts

\* a scanned file of one of the last 5 commits has a secret in it
SecretInCommits ==
  \E c \in 1 .. Len(fixture.history) :
    /\ c <= 5
    /\ fixture.history[c].parent
    /\ \E k \in 1 .. Len(fixture.history[c].files) :
         LET f == fixture.history[c].files[k]
         IN  f.path \in ScannedFiles /\ f.show.ok /\ f.show.out \in SecretTexts

Mentions(fix, word) ==
  \E k \in 1 .. Len(fix) : \E i \in 1 .. Len(fix[k]) : fix[k][i] = word

C18_NoSecret ==
  GitRan =>
    /\ ~fixture.gitDir => verdict.status = "warning"
    /\ (/\ fixture.gitDir
        /\ fixture.git = "ok"
        /\ fixture.untracked = << >> /\ fixture.changed = << >> /\ fixture.staged = << >>
        /\ \A c \in 1 .. Len(fixture.history) :
             c <= 5 => \A k \in 1 .. Len(fixture.history[c].files) :
                         fixture.history[c].files[k].show.out \notin SecretTexts)
         => /\ verdict.status = "pass"
            /\ \E k \in 1 .. Len(verdict.details) :
                 verdict.details[k].message
                   = << "Working", " ", "directory", " ", "clean" >>
    /\ verdict.status = "fail"
         => fixture.gitDir /\ fixture.git = "ok" /\ (SecretInDiff \/ SecretInCommits)
    /\ (fixture.gitDir /\ ~(fixture.git = "ok" /\ (SecretInDiff \/ SecretInCommits)))
         => verdict.status = "pass"

C18_Witness ==
  /\ GitRan
  /\ fixture.gitDir
  /\ fixture.untracked = << SkillEnv >>
  /\ fixture.changed = << EnvFile >>
  /\ Len(fixture.history) = 6
  /\ fixture.history[6].files[1].show = Ok(BearerDiff)
  /\ verdict.status = "pass"

DependenciesRan == pc = "checked" /\ fixture.check = "dependencies"

\* the manifests the check finds: the root's and those of the listed skills
FoundManifests ==
  (IF fixture.root.exists THEN {fixture.root} ELSE {})
  \cup (IF fixture.skillsReadable
          THEN { fixture.skills[k].pkg : k \in { j \in 1 .. Len(fixture.skills) :
                                                  fixture.skills[j].pkg.exists } }
          ELSE {})

\* the manifest has no node_modules directory, or declares one of dotenv,
\* @notionhq/client and node-telegram-bot-api that is not installed
Lacking(m) ==
  \/ ~m.nodeModules
  \/ \E dep \in {"dotenv", "@notionhq/client", "node-telegram-bot-api"} :
       /\ dep \in m.dependencies \cup m.devDependencies
       /\ dep \notin m.installed

\* C19: if a manifest that was found has no node_modules directory or lacks a
\* critical package it declares, the status is 'fail'; the status is 'pass'
\* only if no manifest that was found is so.
C19_DependenciesVerdict ==
  DependenciesRan =>
    /\ (\E m \in FoundManifests : Lacking(m)) => verdict.status = "fail"
    /\ verdict.status = "pass" => \A m \in FoundManifests : ~Lacking(m)

SyntaxRan == pc = "checked" /\ fixture.check = "syntax"

ExistingCritical == { k \in 1 .. 4 : fixture.critical[k].exists }

\* the files beyond the critical list that the check may look at
AdditionalScripts ==
  SelectSeq(fixture.allJsFiles,
            LAMBDA f : f.path \notin { fixture.critical[k].path : k \in 1 .. 4 })

\* one of the files that are checked does not parse
SomeCheckedBroken ==
  \/ \E k \in ExistingCritical : ~fixture.critical[k].parses
  \/ /\ fixture.glob
     /\ \E k \in 1 .. Len(AdditionalScripts) : k <= 20 /\ ~AdditionalScripts[k].parses

\* C20: when a critical file exists the check returns, with 'fail' if a
\* checked file does not parse and 'pass' if all of them parse; a critical
\* file that is absent gets a warning detail and does not by itself make the
\* status 'fail' or 'error'; at most 20 files beyond the critical list are
\* checked.
C20_SyntaxVerdict ==
  SyntaxRan =>
    /\ ExistingCritical /= {} =>
         /\ ~verdict.thrown
         /\ verdict.status = IF SomeCheckedBroken THEN "fail" ELSE "pass"
    /\ \A k \in (1 .. 4) \ ExistingCritical :
         /\ ~verdict.thrown
         /\ \E d \in 1 .. Len(verdict.details) :
              /\ verdict.details[d].status = "warning"
              /\ verdict.details[d].message
                   = << fixture.critical[k].path, " ", "not", " ", "found" >>
         /\ ~SomeCheckedBroken => verdict.status \notin {"fail", "error"}
    /\ ~verdict.thrown =>
         \E p \in 0 .. 24 : \E c \in 0 .. Cardinality(ExistingCritical) + 20 :
           verdict.message = << "Syntax", " ", "check", ":", " " >> \o String(p)
                               \o << "/" >> \o String(c)
                               \o << " ", "files", " ", "passed" >>

----------------------------------------------------------------------------
(* Properties of the summary (SpecLog) *)

\* a report of the results collected has been summarised and appended
Reported == pc \in {"appended", "parsed"}

\* C27: the overall status of every summary, that of no results included
\* (which is 'pass'), is one of pass, warning and fail, never error or
\* unknown, so it has a glyph in the table of sendTelegram
C27_OverallStatusRange ==
  Reported =>
    /\ summary.overallStatus \in {"pass", "warning", "fail"}
    /\ summary.overallStatus \in DOMAIN telegramStatusEmoji
    /\ {"error", "unknown"} \cap DOMAIN telegramStatusEmoji = {}
    /\ results = << >> => summary.overallStatus = "pass"

\* a summary of results with an error among them
C27_Witness ==
  /\ Reported
  /\ \E k \in 1 .. Len(results) : results[k].status = "error"
  /\ summary.overallStatus = "fail"

\* the results whose status is none of pass, warning, fail and error
Uncounted ==
  { k \in 1 .. Len(results) : results[k].status \notin {"pass", "warning", "fail", "error"} }

\* C28: total is the number of results; the four counts add up to total when
\* every status is one of pass, warning, fail and error, and to less than
\* total when a result has another status; such a result is in no count and
\* a summary of such results and passes is 'pass'
C28_CountsPartition ==
  Reported =>
    LET sum == summary.passed + summary.warnings + summary.failed + summary.errors
    IN  /\ summary.total = Len(results)
        /\ sum = summary.total - Cardinality(Uncounted)
        /\ Uncounted = {} => sum = summary.total
        /\ Uncounted /= {} => sum < summary.total
        /\ (\A k \in 1 .. Len(results) : k \in Uncounted \/ results[k].status = "pass")
             => summary.overallStatus = "pass"

\* a summary of one pass and one result without a status
C28_Witness ==
  /\ Reported
  /\ Len(results) = 2
  /\ Cardinality(Uncounted) = 1
  /\ summary.passed = 1
  /\ summary.total = 2
  /\ summary.overallStatus = "pass"

----------------------------------------------------------------------------
(* Properties of the run: failures, order and termination (Spec, SpecFair) *)

\* Between two awaits main runs without interruption, so each position of
\* the run is the operation main is waiting for: at "await" the check
\* function, at "log" logger.append (unless --dry-run), at "notify" the
\* Telegram subprocess and at "notion" the Notion subprocess (when they are
\* to be sent); the step that leaves the position is the operation settling.

\* C24: when a step of main outside runCheck rejects (logger.append fails),
\* the process exits with code 1 whatever the overall status is, and never
\* with code 0
C24_TopLevelFailureExitsOne ==
  /\ [][pc = "fatal" => (pc' = "failed" /\ exitCode' = 1)]_vars
  /\ [](pc = "failed" => exitCode = 1)
  /\ [][pc = "failed" => (pc' = "failed" /\ exitCode' = 1)]_vars

\* the append failed in a run whose overall status is 'pass'; the exit code is 1
C24_Witness ==
  /\ pc = "failed"
  /\ summary.overallStatus = "pass"
  /\ exitCode = 1

\* the notification attempts of a run that got to its end
ExpectedAttempts ==
  IF ~NotifyWanted THEN << >>
  ELSE IF NotionConfigured THEN << "telegram", "notion" >>
  ELSE << "telegram" >>

\* C25: the steps of a run follow one another in the order checks, summary,
\* log append, Telegram, Notion, exit, one at a time: a check is started only
\* when the one before has settled, the summary is made when all of them
\* have, the append is awaited after that, the Telegram subprocess is there
\* only after the append completed, the Notion subprocess only after the
\* Telegram one settled, and the exit comes after the last attempt
C25_PipelineOrder ==
  /\ [][pc' /= pc =>
         <<pc, pc'>> \in { <<"loop", "await">>, <<"await", "loop">>, <<"loop", "log">>,
                           <<"log", "notify">>, <<"log", "fatal">>,
                           <<"notify", "notion">>, <<"notify", "exit">>,
                           <<"notion", "exit">>, <<"exit", "done">>,
                           <<"fatal", "failed">> }]_vars
  /\ [](Len(invoked) - Len(settled) = IF pc = "await" THEN 1 ELSE 0)
  /\ [](pc \in {"loop", "await"} =>
          /\ IsPrefix(invoked, checksToRun)
          /\ appended = << >> /\ attempts = << >> /\ sendCalls = 0)
  /\ [](pc \in {"log", "notify", "notion", "exit", "done"} =>
          invoked = checksToRun /\ Len(settled) = Len(checksToRun))
  /\ [](pc = "log" => appended = << >> /\ attempts = << >> /\ sendCalls = 0)
  /\ [](pc \in {"notify", "notion", "exit", "done"} =>
          Len(appended) = IF "--dry-run" \in argv THEN 0 ELSE 1)
  /\ [](pc = "notify" => attempts = << >>)
  /\ [](pc = "notion" =>
          Len(attempts) = 1 /\ attempts[1].channel = "telegram")
  /\ [](pc \in {"exit", "done"} =>
          [ k \in 1 .. Len(attempts) |-> attempts[k].channel ] = ExpectedAttempts)

\* a full run with both notifications got to its exit
C25_Witness ==
  /\ pc = "done"
  /\ Len(settled) = 5
  /\ Len(appended) = 1
  /\ Len(attempts) = 2
  /\ attempts[2].channel = "notion"

\* C26: when every check, the append and every subprocess settles, the run
\* gets to the exit of the process with code 0 or 1; and nothing but the
\* operation settling ends the wait for it: while it has not settled the
\* process has not exited and no later step has run
C26_Termination ==
  /\ <>(pc \in {"done", "failed"} /\ exitCode \in {0, 1})
  /\ [][pc = "await" => (pc' = "loop" /\ Len(settled') = Len(settled) + 1)]_vars
  /\ [][(pc = "log" /\ "--dry-run" \notin argv) =>
          (Len(appended') = Len(appended) + 1 \/ pc' = "fatal")]_vars
  /\ [][(pc = "notify" /\ NotifyWanted) => Len(attempts') = Len(attempts) + 1]_vars
  /\ [][(pc = "notion" /\ NotionConfigured) => Len(attempts') = Len(attempts) + 1]_vars

\* a run that waited for three checks, the append and two subprocesses has exited
C26_Witness ==
  /\ pc = "done"
  /\ exitCode \in {0, 1}
  /\ Len(settled) = 3
  /\ Len(appended) = 1
  /\ Len(attempts) = 2

----------------------------------------------------------------------------
(* analyze-trends.js *)

\* The timestamp of a trend entry is a time in hours after
\* 2026-01-01T00:00:00Z.

\* entry.timestamp.toISOString().split('T')[0]: the UTC date, as the number of
\* the day (the date texts are ordered like the numbers of their days)
dateKey(timestamp) == timestamp \div 24

\* (p / n * 100).toFixed(1) for 0 <= p <= n and 0 < n < 16: the decimal text of
\* the percentage rounded to the nearest tenth (a percentage half way between
\* two tenths needs 16 | n)
toFixed1(p, n) ==
  LET t == (2000 * p + n) \div (2 * n)
  IN  String(t \div 10) \o << "." >> \o String(t % 10)

\* 10 * Number(text) for a text written by toFixed(1)
tenths(text) ==
  10 * parseInt(SubSeq(text, 1, Len(text) - 2)) + DigitValue(text[Len(text)])

\* the UTF-16 code unit of a character of such a text
codeUnit(c) == IF c = "." THEN 46 ELSE 48 + DigitValue(c)

RECURSIVE stringLess(_, _)
\* a < b for two strings: the comparison of their code units, left to right
stringLess(a, b) ==
  IF b = << >> THEN FALSE
  ELSE IF a = << >> THEN TRUE
  ELSE IF codeUnit(Head(a)) /= codeUnit(Head(b))
    THEN codeUnit(Head(a)) < codeUnit(Head(b))
  ELSE stringLess(Tail(a), Tail(b))

\* the checks of all entries, in order
allChecks(es) == Flatten([ k \in 1 .. Len(es) |-> es[k].checks ])

\* the keys of checkStats, in insertion order
checkNames(es) == unique([ k \in 1 .. Len(allChecks(es)) |-> allChecks(es)[k].name ])

\* checkStats[name] after the loops of lines 150-171; a status that is not
\* one of the four counters only adds to total (its own key becomes NaN)
checkStat(es, name) ==
  LET cs == SelectSeq(allChecks(es), LAMBDA c : c.name = name)
      count(s) == Len(SelectSeq(cs, LAMBDA c : c.status = s))
  IN  [ total    |-> Len(cs),
        pass     |-> count("pass"),
        warning  |-> count("warning"),
        fail     |-> count("fail"),
        error    |-> count("error"),
        passRate |-> toFixed1(count("pass"), Len(cs)) ]

\* dailyMap.get(dateKey) after the loop of lines 175-189
dayStat(es, date) ==
  LET ofDay  == SelectSeq(es, LAMBDA e : dateKey(e.timestamp) = date)
      passed == Len(SelectSeq(ofDay, LAMBDA e : e.summary.overallStatus = "pass"))
  IN  [ date |-> date, checks |-> Len(ofDay), passed |-> passed,
        failed |-> Len(ofDay) - passed ]

RECURSIVE sortDates(_)
\* the dates of a set in ascending order
sortDates(dates) ==
  IF dates = {} THEN << >>
  ELSE LET first == CHOOSE d \in dates : \A e \in dates : d <= e
       IN  << first >> \o sortDates(dates \ {first})

\* Array.from(dailyMap.values()).sort((a, b) => a.date.localeCompare(b.date))
dailyStats(es) ==
  LET dates == sortDates({ dateKey(es[k].timestamp) : k \in 1 .. Len(es) })
  IN  [ i \in 1 .. Len(dates) |-> dayStat(es, dates[i]) ]

RECURSIVE sumPassed(_)
\* days.reduce((s, d) => s + d.passed, 0)
sumPassed(days) ==
  IF days = << >> THEN 0 ELSE Head(days).passed + sumPassed(Tail(days))

RECURSIVE sumChecks(_)
\* days.reduce((s, d) => s + d.checks, 0)
sumChecks(days) ==
  IF days = << >> THEN 0 ELSE Head(days).checks + sumChecks(Tail(days))

\* the condition of line 199 with two observations sufficing
frequentlyFailingTwice(stat) ==
  stat.fail + stat.error > stat.pass /\ stat.total >= 2

\* stat.fail + stat.error > stat.pass && stat.total >= 3
frequentlyFailing(stat) ==
  stat.fail + stat.error > stat.pass /\ stat.total >= 3

\* what the loop of lines 198-215 adds for one check name
nameFindings(name, stat) ==
  IF frequentlyFailing(stat)
    THEN [ issues |->
             << [ severity |-> "high", check |-> name,
                  message |-> << "Frequently failing: " >> \o String(stat.fail + stat.error)
                                \o << "/" >> \o String(stat.total)
                                \o << " checks failed" >>,
                  passRate |-> stat.passRate ] >>,
           recommendations |->
             << << "Review and fix " >> \o name \o << " - only " >> \o stat.passRate
                  \o << "% pass rate" >> >> ]
  ELSE IF tenths(stat.passRate) < 800
    THEN [ issues |->
             << [ severity |-> "medium", check |-> name,
                  message |-> << "Unreliable: " >> \o stat.passRate \o << "% pass rate" >>,
                  passRate |-> stat.passRate ] >>,
           recommendations |-> << >> ]
  ELSE [ issues |-> << >>, recommendations |-> << >> ]

\* the condition of line 226 with a drop of 10 points included
decliningFromTen(recentPassRate, earlierPassRate) ==
  tenths(recentPassRate) <= tenths(earlierPassRate) - 100

\* recentPassRate < earlierPassRate - 10: the subtraction converts the text
\* to a number, and so does the comparison of a text with a number
declining(recentPassRate, earlierPassRate) ==
  tenths(recentPassRate) < tenths(earlierPassRate) - 100

\* recentPassRate > earlierPassRate + 10: + appends '10' to the text, and two
\* texts are compared code unit by code unit
improving(recentPassRate, earlierPassRate) ==
  stringLess(earlierPassRate \o << "1", "0" >>, recentPassRate)

\* what lines 218-237 add
trendFindings(daily) ==
  LET none == [ issues |-> << >>, recommendations |-> << >> ]
  IN
  IF Len(daily) >= 3
    THEN LET recentDays == slice(daily, 0 - 3)
             recentPassRate == toFixed1(sumPassed(recentDays), sumChecks(recentDays))
             earlier == SubSeq(daily, 1, Len(daily) - 3)
         IN  IF Len(earlier) > 0
               THEN LET earlierPassRate ==
                          toFixed1(sumPassed(earlier), sumChecks(earlier))
                    IN  IF declining(recentPassRate, earlierPassRate)
                          THEN [ issues |->
                                   << [ severity |-> "high", check |-> << "Overall" >>,
                                        message |-> << "Declining health: Pass rate dropped from " >>
                                                      \o earlierPassRate \o << "% to " >>
                                                      \o recentPassRate \o << "%" >> ] >>,
                                 recommendations |->
                                   << << "Investigate recent configuration changes or system issues" >> >> ]
                        ELSE IF improving(recentPassRate, earlierPassRate)
                          THEN [ issues |-> << >>,
                                 recommendations |->
                                   << << "Health improving! Keep up the good work." >> >> ]
                        ELSE none
               ELSE none
    ELSE none

\* Math.round(totalDuration / totalCheckCount), NaN without any check
avgDuration(es) ==
  LET cs == allChecks(es)
      RECURSIVE total(_)
      total(k) == IF k = 0 THEN 0 ELSE cs[k].duration + total(k - 1)
  IN  IF cs = << >> THEN "NaN" ELSE (2 * total(Len(cs)) + Len(cs)) \div (2 * Len(cs))

analyzeTrends(es) ==
  IF Len(es) = 0
    THEN [ totalChecks |-> 0, passRate |-> 0, avgDuration |-> 0,
           checkStats |-> << >>, dailyStats |-> << >>,
           issues |-> << >>, recommendations |-> << >> ]
  ELSE LET names == checkNames(es)
           perName == [ k \in 1 .. Len(names) |->
                          nameFindings(names[k], checkStat(es, names[k])) ]
           trend == trendFindings(dailyStats(es))
       IN  [ totalChecks |-> Len(es),
             passRate |-> toFixed1(Len(SelectSeq(es, LAMBDA e :
                                         e.summary.overallStatus = "pass")), Len(es)),
             avgDuration |-> avgDuration(es),
             checkStats |-> [ k \in 1 .. Len(names) |->
                                [ name |-> names[k], stat |-> checkStat(es, names[k]) ] ],
             dailyStats |-> dailyStats(es),
             issues |-> Flatten([ k \in 1 .. Len(names) |-> perName[k].issues ])
                          \o trend.issues,
             recommendations |->
               Flatten([ k \in 1 .. Len(names) |-> perName[k].recommendations ])
                 \o trend.recommendations ]

\* analysis.issues.some(i => i.severity === 'high')
hasIssues(analysis) ==
  \E k \in 1 .. Len(analysis.issues) : analysis.issues[k].severity = "high"

\* entries.filter(e => e.timestamp >= cutoffDate), cutoffDate being days
\* before the time of the run
filteredEntries(es, time, days) ==
  SelectSeq(es, LAMBDA e : e.timestamp >= time - 24 * days)

----------------------------------------------------------------------------
(* runs of analyze-trends.js on a log that grows day by day; the log is     *)
(* held as the entries parseHealthCheckLog recovers from it                 *)

MaxDays == 4

MaxPerDay == 2

\* What the parser can recover for one run of the health check: an overall
\* status from the summary and, for a check, one of the statuses pass, fail
\* and unknown (glyphStatus yields no other).
RunKinds ==
  { [ summary |-> [ total |-> 2, passed |-> 2, warnings |-> 0, failed |-> 0,
                    errors |-> 0, overallStatus |-> "pass" ],
      checks  |-> << [ name |-> << "Config", " ", "Check" >>, status |-> "pass", duration |-> 12 ],
                     [ name |-> << "Git", " ", "Status" >>, status |-> "pass", duration |-> 7 ] >> ],
    [ summary |-> [ total |-> 2, passed |-> 0, warnings |-> 1, failed |-> 1,
                    errors |-> 0, overallStatus |-> "fail" ],
      checks  |-> << [ name |-> << "Config", " ", "Check" >>, status |-> "fail", duration |-> 12 ],
                     [ name |-> << "Git", " ", "Status" >>, status |-> "unknown", duration |-> 7 ] >> ],
    [ summary |-> [ total |-> 2, passed |-> 0, warnings |-> 1, failed |-> 1,
                    errors |-> 0, overallStatus |-> "unknown" ],
      checks  |-> << [ name |-> << "Config", " ", "Check" >>, status |-> "unknown", duration |-> 12 ],
                     [ name |-> << "Git", " ", "Status" >>, status |-> "fail", duration |-> 7 ] >> ] }

\* How analyze-trends is run: the state of the log path, options.days, and
\* whether --output names a file that can be written
TrendRuns ==
  { [ file |-> "absent",     days |-> 7, output |-> "none" ],
    [ file |-> "unreadable", days |-> 7, output |-> "none" ],
    [ file |-> "present",    days |-> 7, output |-> "none" ],
    [ file |-> "present",    days |-> 2, output |-> "none" ],
    [ file |-> "present",    days |-> 7, output |-> "writable" ],
    [ file |-> "present",    days |-> 7, output |-> "unwritable" ] }

InitTrends ==
  /\ pc = "history"
  /\ argv = {}
  /\ env = [ HEALTH_CHECK_ALERT_ONLY |-> NoValue, HEALTH_CHECK_NOTION_DB_ID |-> NoValue ]
  /\ now = 0
  /\ idx = 1
  /\ startTime = 0
  /\ invoked = << >>
  /\ settled = << >>
  /\ results = << >>
  /\ console = << >>
  /\ summary = NoValue
  /\ reportText = << >>
  /\ logFile = << >>
  /\ sendCalls = 0
  /\ sendResults = << >>
  /\ attempts = << >>
  /\ exitCode = NoValue
  /\ appended = << >>
  /\ entries = << >>
  /\ fileState = "present"
  /\ recent = << >>
  /\ fixture = NoValue
  /\ verdict = NoValue

\* a run of the health check is recorded in the log
RecordRun ==
  /\ pc = "history"
  /\ Len(SelectSeq(entries, LAMBDA e : dateKey(e.timestamp) = dateKey(now))) < MaxPerDay
  /\ \E kind \in RunKinds :
       entries' = Append(entries, [ timestamp |-> now, summary |-> kind.summary,
                                    checks |-> kind.checks ])
  /\ UNCHANGED <<pc, argv, env, now, idx, startTime, invoked, settled, results, console,
                 summary, reportText, logFile, sendCalls, sendResults, attempts, exitCode,
                 appended>>
  /\ UNCHANGED harnessVars

\* a day passes
DayPasses ==
  /\ pc = "history"
  /\ dateKey(now) + 1 < MaxDays
  /\ now' = now + 24
  /\ UNCHANGED <<pc, argv, env, idx, startTime, invoked, settled, results, console,
                 summary, reportText, logFile, sendCalls, sendResults, attempts, exitCode,
                 appended, entries>>
  /\ UNCHANGED harnessVars

\* main up to the first await, with exit code 0 for a log without a high issue
TrendsStartMissingLogPasses ==
  /\ pc = "history"
  /\ \E run \in TrendRuns :
       /\ fixture' = run
       /\ IF run.file = "absent"
            THEN pc' = "exited" /\ exitCode' = 0
            ELSE pc' = "readFile" /\ exitCode' = exitCode
  /\ UNCHANGED <<argv, env, now, idx, startTime, invoked, settled, results, console,
                 summary, reportText, logFile, sendCalls, sendResults, attempts,
                 appended, entries, fileState, recent, verdict>>

\* main of analyze-trends.js up to its first await (lines 373-388)
TrendsStart ==
  /\ pc = "history"
  /\ \E run \in TrendRuns :
       /\ fixture' = run
       /\ IF run.file = "absent"
            THEN pc' = "exited" /\ exitCode' = 1
            ELSE pc' = "readFile" /\ exitCode' = exitCode
  /\ UNCHANGED <<argv, env, now, idx, startTime, invoked, settled, results, console,
                 summary, reportText, logFile, sendCalls, sendResults, attempts,
                 appended, entries, fileState, recent, verdict>>

\* fs.readFile settles; main goes on to its exit or to fs.writeFile
\* (lines 388-432)
TrendsRead ==
  /\ pc = "readFile"
  /\ IF fixture.file = "unreadable"
       THEN pc' = "rejected" /\ UNCHANGED <<exitCode, verdict>>
       ELSE LET filtered == filteredEntries(entries, now, fixture.days)
            IN  IF Len(filtered) = 0
                  THEN pc' = "exited" /\ exitCode' = 0 /\ verdict' = verdict
                  ELSE /\ verdict' = analyzeTrends(filtered)
                       /\ IF fixture.output /= "none"
                            THEN pc' = "writeFile" /\ exitCode' = exitCode
                            ELSE /\ pc' = "exited"
                                 /\ exitCode' = IF hasIssues(verdict') THEN 1 ELSE 0
  /\ UNCHANGED <<argv, env, now, idx, startTime, invoked, settled, results, console,
                 summary, reportText, logFile, sendCalls, sendResults, attempts,
                 appended, entries, fileState, recent, fixture>>

\* fs.writeFile settles; main exits (lines 424-432)
TrendsWrite ==
  /\ pc = "writeFile"
  /\ IF fixture.output = "unwritable"
       THEN pc' = "rejected" /\ exitCode' = exitCode
       ELSE pc' = "exited" /\ exitCode' = IF hasIssues(verdict) THEN 1 ELSE 0
  /\ UNCHANGED <<argv, env, now, idx, startTime, invoked, settled, results, console,
                 summary, reportText, logFile, sendCalls, sendResults, attempts,
                 appended, entries, fileState, recent, fixture, verdict>>

\* main().catch(err => { console.error('Error:', err); process.exit(1); })
TrendsCatch ==
  /\ pc = "rejected"
  /\ pc' = "exited"
  /\ exitCode' = 1
  /\ UNCHANGED <<argv, env, now, idx, startTime, invoked, settled, results, console,
                 summary, reportText, logFile, sendCalls, sendResults, attempts,
                 appended, entries, fileState, recent, fixture, verdict>>

NextTrends ==
  \/ RecordRun
  \/ DayPasses
  \/ TrendsStart
  \/ TrendsRead
  \/ TrendsWrite
  \/ TrendsCatch

SpecTrends == InitTrends /\ [][NextTrends]_vars

----------------------------------------------------------------------------
(* Properties of the trend analysis (SpecTrends) *)

\* the entries of the period analysed
Period == filteredEntries(entries, now, fixture.days)

\* analyzeTrends has run on the entries of the period
Analysed ==
  /\ pc \in {"writeFile", "rejected", "exited"}
  /\ fixture.file = "present"
  /\ Period /= << >>

\* how often a check of the given name was observed with one of the statuses
Observations(name, statuses) ==
  Cardinality({ ij \in (1 .. Len(Period)) \X (1 .. 2) :
                  /\ ij[2] <= Len(Period[ij[1]].checks)
                  /\ Period[ij[1]].checks[ij[2]].name = name
                  /\ Period[ij[1]].checks[ij[2]].status \in statuses })

ObservedNames ==
  { Period[i].checks[j].name : i \in 1 .. Len(Period), j \in 1 .. 2 }

AnyStatus == {"pass", "warning", "fail", "error", "unknown"}

FrequentlyFailingIssue(name) ==
  \E k \in 1 .. Len(verdict.issues) :
    /\ verdict.issues[k].severity = "high"
    /\ verdict.issues[k].check = name
    /\ verdict.issues[k].message[1] = "Frequently failing: "

\* C21: for every check name of the analysed entries there is a high-severity
\* 'Frequently failing' issue for the name if and only if the name was
\* observed at least 3 times and its fail plus error observations outnumber
\* its pass observations.
C21_FrequentlyFailing ==
  Analysed =>
    \A name \in ObservedNames :
      FrequentlyFailingIssue(name) <=>
        /\ Observations(name, AnyStatus) >= 3
        /\ Observations(name, {"fail", "error"}) > Observations(name, {"pass"})

\* one name is flagged, another was observed as often and is not, and a run
\* with fewer than 3 observations of a failing name exists elsewhere
C21_Witness ==
  /\ Analysed
  /\ \E name \in ObservedNames : FrequentlyFailingIssue(name)
  /\ \E name \in ObservedNames :
       /\ ~FrequentlyFailingIssue(name)
       /\ Observations(name, AnyStatus) >= 3
       /\ Observations(name, {"fail", "error"}) = Observations(name, {"pass"})
       /\ Observations(name, {"pass"}) > 0

\* the days of the period that have entries
Days == { dateKey(Period[k].timestamp) : k \in 1 .. Len(Period) }

\* the last three of them, and the days before
RecentDays == { d \in Days : Cardinality({ e \in Days : e > d }) < 3 }

EarlierDays == Days \ RecentDays

RunsOn(days) ==
  Cardinality({ k \in 1 .. Len(Period) : dateKey(Period[k].timestamp) \in days })

PassedOn(days) ==
  Cardinality({ k \in 1 .. Len(Period) :
                  /\ dateKey(Period[k].timestamp) \in days
                  /\ Period[k].summary.overallStatus = "pass" })

\* the history has days before the last three
HasEarlier == Analysed /\ EarlierDays /= {}

\* the earlier pass rate minus the recent one, in points, is at least / more
\* than / less than the given number of points (exact arithmetic)
DropAtLeast(points) ==
  100 * (PassedOn(EarlierDays) * RunsOn(RecentDays) - PassedOn(RecentDays) * RunsOn(EarlierDays))
    >= points * RunsOn(EarlierDays) * RunsOn(RecentDays)

RiseMoreThan(points) ==
  100 * (PassedOn(RecentDays) * RunsOn(EarlierDays) - PassedOn(EarlierDays) * RunsOn(RecentDays))
    > points * RunsOn(EarlierDays) * RunsOn(RecentDays)

\* a pass rate in tenths of a point, rounded to the nearest tenth
RoundedRate(days) ==
  LET q == 1000 * PassedOn(days)
      n == RunsOn(days)
  IN  (q \div n) + (IF 2 * (q % n) >= n THEN 1 ELSE 0)

DecliningIssue ==
  \E k \in 1 .. Len(verdict.issues) :
    /\ verdict.issues[k].severity = "high"
    /\ verdict.issues[k].check = << "Overall" >>
    /\ verdict.issues[k].message[1] = "Declining health: Pass rate dropped from "

ImprovingRecommendation ==
  \E k \in 1 .. Len(verdict.recommendations) :
    verdict.recommendations[k] = << "Health improving! Keep up the good work." >>

C30_Improving ==
  /\ HasEarlier => (ImprovingRecommendation <=> RiseMoreThan(10))
  /\ Analysed => ~(DecliningIssue /\ ImprovingRecommendation)

\* C23: analyze-trends exits with 0 if and only if the run got to its end
\* and the analysis holds no issue of severity 'high', a period without
\* entries counting as such; with a high issue, a missing log file or an
\* error thrown by reading the log or writing the report it exits with 1.
C23_TrendsExitCode ==
  pc = "exited" =>
    /\ exitCode \in {0, 1}
    /\ exitCode = 0 <=>
         /\ fixture.file = "present"
         /\ \/ Period = << >>
            \/ /\ fixture.output /= "unwritable"
               /\ ~DecliningIssue
               /\ \A name \in ObservedNames : ~FrequentlyFailingIssue(name)
               /\ \A k \in 1 .. Len(verdict.issues) : verdict.issues[k].severity /= "high"

\* an exit with 0 after an analysis that holds a medium issue only
C23_Witness ==
  /\ pc = "exited"
  /\ exitCode = 0
  /\ Analysed
  /\ Len(verdict.issues) > 0

----------------------------------------------------------------------------
(* the dashboard: readHealthChecks *)

\* the code units of the character class [U+2705 U+26A0 U+FE0F U+274C U+1F4A5]
OverallGlyphClass == {"u2705", "u26A0", "uFE0F", "u274C", "uD83D", "uDCA5"}

\* \w matches the first character of the token: it is neither white space,
\* nor punctuation, nor a code unit of a glyph
IsWord(token) ==
  /\ token \notin {" ", "\n", ":", ".", "-", "/", "#", "[", "]", "=", "={60}"}
  /\ token \notin CheckGlyphClass
  /\ token \notin { Hospital[i] : i \in 1 .. 2 } \cup { Calendar[i] : i \in 1 .. 2 }
                    \cup { BarChart[i] : i \in 1 .. 2 } \cup { LightBulb[i] : i \in 1 .. 2 }
                    \cup { Tick[1], Ballot[1] }

RECURSIVE overallMatch(_, _)
\* entry.match(/Overall Status:\s*([...])\s*(\w+)/) searched from position k:
\* group 1 of the leftmost match, or NoMatch. Neither the class nor \w holds
\* white space, so each \s* takes the whole run of white space.
overallMatch(entry, k) ==
  LET label == << "Overall", " ", "Status", ":" >>
      i == IndexOf(entry, label, k)
      g == i + Len(label) + RunLength(entry, i + Len(label), {" ", "\n"})
      w == g + 1 + RunLength(entry, g + 1, {" ", "\n"})
  IN  IF i = 0 THEN NoMatch
      ELSE IF /\ g <= Len(entry) /\ entry[g] \in OverallGlyphClass
              /\ w <= Len(entry) /\ IsWord(entry[w])
        THEN << entry[g] >>
      ELSE overallMatch(entry, i + 1)

RECURSIVE numberAfter(_, _, _, _, _)
\* entry.match(/<pre>\s{min,}<post>\s*(\d+)/) searched from position k: the
\* digits of the leftmost match, or NoMatch
numberAfter(entry, pre, min, post, k) ==
  LET i  == IndexOf(entry, pre, k)
      sp == RunLength(entry, i + Len(pre), {" ", "\n"})
      p  == i + Len(pre) + sp
      d  == p + Len(post) + RunLength(entry, p + Len(post), {" ", "\n"})
      n  == RunLength(entry, d, DigitSet)
  IN  IF i = 0 THEN NoMatch
      ELSE IF sp >= min /\ StartsWith(entry, p, post) /\ n >= 1
        THEN SubSeq(entry, d, d + n - 1)
      ELSE numberAfter(entry, pre, min, post, i + 1)

\* a counter of the summary: 0 unless its pattern matches
countOf(entry, pre, min, post) ==
  LET m == numberAfter(entry, pre, min, post, 1)
  IN  IF m = NoMatch THEN 0 ELSE parseInt(m)

\* the body of the loop over rawEntries: the entries pushed for one raw entry
readEntry(entry) ==
  IF trim(entry) = << >> THEN << >>
  ELSE IF timestampMatch(entry) = NoMatch THEN << >>
  ELSE << [ id |-> Date(timestampMatch(entry)),
            timestamp |-> toISOString(Date(timestampMatch(entry))),
            overallStatus |->
              IF overallMatch(entry, 1) = NoMatch THEN "unknown"
              ELSE glyphStatus(overallMatch(entry, 1)),
            summary |->
              [ total    |-> countOf(entry, << "Total", " ", "Checks", ":" >>, 0, << >>),
                passed   |-> countOf(entry, CheckMark \o << " ", "Passed", ":" >>, 0, << >>),
                warnings |-> countOf(entry, WarningSign, 1, << "Warnings", ":" >>),
                failed   |-> countOf(entry, CrossMark \o << " ", "Failed", ":" >>, 0, << >>),
                errors   |-> countOf(entry, Collision \o << " ", "Errors", ":" >>, 0, << >>) ],
            checks |-> IF detailsMatch(entry) = NoMatch THEN << >>
                       ELSE parseChecks(split(detailsMatch(entry), << "\n" >>)) ] >>

RECURSIVE readEntries(_)
readEntries(raw) ==
  IF raw = << >> THEN << >> ELSE readEntry(Head(raw)) \o readEntries(Tail(raw))

RECURSIVE insertNewestFirst(_, _)
insertNewestFirst(sorted, e) ==
  IF sorted = << >> THEN << e >>
  ELSE IF e.id > Head(sorted).id THEN << e >> \o sorted
  ELSE << Head(sorted) >> \o insertNewestFirst(Tail(sorted), e)

RECURSIVE sortNewestFirst(_)
\* entries.sort((a, b) => new Date(b.timestamp) - new Date(a.timestamp)), a
\* stable sort
sortNewestFirst(es) ==
  IF es = << >> THEN << >>
  ELSE insertNewestFirst(sortNewestFirst(SubSeq(es, 1, Len(es) - 1)), es[Len(es)])

\* readHealthChecks() for a log path in the given state holding content. An
\* Invalid Date makes toISOString throw at line 539, and the catch returns [].
readHealthChecks(state, content) ==
  IF state /= "present" THEN << >>
  ELSE LET found == readEntries(rawEntries(content))
       IN  IF \E k \in 1 .. Len(found) : found[k].id < 0 THEN << >>
           ELSE sortNewestFirst(found)

----------------------------------------------------------------------------
(* the two readers on one log: reports are written to the log by            *)
(* logger.append or by a writer that dates its blocks in local time         *)

\* a block like that of logger.append whose marker line holds the time
\* without the zone letter
appendLocalTime(file, content, t) ==
  file \o separator \o << "\n" >> \o Calendar \o << " " >>
       \o SubSeq(toISOString(t), 1, Len(toISOString(t)) - 1)
       \o << "\n" >> \o separator \o << "\n" >> \o content \o << "\n", "\n" >>

\* generateSummary and formatResults on the results collected, written to the
\* log with a local-time marker
WriteLocalTime ==
  /\ pc = "collect"
  /\ summary' = generateSummary(results, now)
  /\ reportText' = formatResults(results, summary', now)
  /\ logFile' = appendLocalTime(logFile, reportText', now)
  /\ appended' = Append(appended, [content |-> reportText', time |-> now])
  /\ pc' = "appended"
  /\ UNCHANGED <<argv, env, now, idx, startTime, invoked, settled, results, console,
                 sendCalls, sendResults, attempts, exitCode, entries>>
  /\ UNCHANGED harnessVars

\* analyze-trends and the dashboard read the log
ReadBoth ==
  /\ pc = "appended"
  /\ entries' = parseHealthCheckLog(logFile)
  /\ verdict' = readHealthChecks(fileState, logFile)
  /\ pc' = "parsed"
  /\ UNCHANGED <<argv, env, now, idx, startTime, invoked, settled, results, console,
                 summary, reportText, logFile, sendCalls, sendResults, attempts, exitCode,
                 appended, fileState, recent, fixture>>

NextReaders ==
  \/ CollectCheck
  \/ AppendReport
  \/ WriteLocalTime
  \/ ReadBoth
  \/ NextRun

SpecReaders == InitLog /\ [][NextReaders]_vars

----------------------------------------------------------------------------
(* Properties of the two readers (SpecReaders) *)

\* what the claim compares of an entry of either reader
Compared(time, overall, sm, checks) ==
  [ time |-> time, overallStatus |-> overall, total |-> sm.total, passed |-> sm.passed,
    warnings |-> sm.warnings, failed |-> sm.failed, errors |-> sm.errors,
    checks |-> checks ]

AnalyzerEntries ==
  [ k \in 1 .. Len(entries) |->
      Compared(entries[k].timestamp, entries[k].summary.overallStatus,
               entries[k].summary, entries[k].checks) ]

DashboardEntries ==
  [ k \in 1 .. Len(verdict) |->
      Compared(verdict[k].id, verdict[k].overallStatus, verdict[k].summary,
               verdict[k].checks) ]

\* C29: for every log text the two readers accept the same blocks and
\* recover for each the same timestamp, overall status, counters and check
\* list; the dashboard lists them newest first, the analyzer oldest first.
C29_ReadersAgree ==
  pc = "parsed" =>
    /\ Len(entries) = Len(verdict)
    /\ \A k \in 1 .. Len(entries) :
         Cardinality({ j \in 1 .. Len(entries) : AnalyzerEntries[j] = AnalyzerEntries[k] })
           = Cardinality({ j \in 1 .. Len(verdict) : DashboardEntries[j] = AnalyzerEntries[k] })
    /\ \A k \in 1 .. Len(entries) - 1 : entries[k].timestamp <= entries[k + 1].timestamp
    /\ \A k \in 1 .. Len(verdict) - 1 : verdict[k].id >= verdict[k + 1].id

====
